---- MODULE Spec2Model ----
(***************************************************************************)
(* Time Ledger Engine of google-sheets-time-tracker-api.                   *)
(*                                                                         *)
(* TimerService (src/src/services/timerService.ts, lines 1-421) over the   *)
(* document store reached through GoogleSheetsService                      *)
(* (src/src/services/googleSheets.ts, lines 1-123).                        *)
(*                                                                         *)
(* Every async method of TimerService is cut at its awaits: one action is  *)
(* one store call together with the synchronous code that runs on its      *)
(* result, up to the point where the next store call is issued.  A call    *)
(* in flight has exactly one enabled action, so a handler always runs to   *)
(* its end; what may happen between two of its actions is only a step of   *)
(* another call in flight (specification SpecConc).                        *)
(*                                                                         *)
(* Strings the code inspects character by character (worksheet titles,     *)
(* dates, times, durations) are sequences of one-character strings.        *)
(***************************************************************************)
EXTENDS Integers, Sequences, FiniteSets, TLC

VARIABLES
    store,      \* store[d]: the worksheets of document d, title -> sheet
    configCache,\* TimerService.configCache: document -> cache entry
    clock,      \* the wall clock: day of January 2025 and second of the day
    proc,       \* proc[p]: the call slot p, its position and its locals
    last        \* last[d]: the last successful startTimer/stopTimer on d

vars == <<store, configCache, clock, proc, last>>

----------------------------------------------------------------------------
(* Bounds of the model *)

\* instants the clock can show, calls one after the other
MaxTick == 6
\* data rows a document can hold, calls one after the other
MaxRows == 2
\* instants the clock can show, two calls at a time
MaxTickConc == 2
\* data rows a document can hold, two calls at a time
MaxRowsConc == 2
\* instants the clock can show, over a store that may fail
MaxTickFail == 3
\* data rows a document can hold, over a store that may fail
MaxRowsFail == 1
\* instants the clock can show, with a user editing the document
MaxTickUser == 3
\* data rows a document can hold, with a user editing the document
MaxRowsUser == 3
\* instants the clock can show, calls on two documents
MaxTickDocs == 3
\* data rows a document can hold, calls on two documents
MaxRowsDocs == 1
\* instants the clock can show, with an owner rearranging the document
MaxTickOwner == 3
\* data rows a document can hold, with an owner rearranging the document
MaxRowsOwner == 2

\* the seconds of the day the clock shows, day after day: 9:00:00 AM,
\* 9:04:59 AM, 9:05:00 AM (one TTL after the first) and 1:15:30 PM
ClockTimes == <<32400, 32699, 32700, 47730>>

Docs == {"d1", "d2"}
Procs == {1, 2}

----------------------------------------------------------------------------
(* Characters and numbers *)

Digits == <<"0", "1", "2", "3", "4", "5", "6", "7", "8", "9">>

IsDigit(c) == \E k \in 1..10 : Digits[k] = c

DigitVal(c) == (CHOOSE k \in 1..10 : Digits[k] = c) - 1

\* Number.prototype.toString of a natural number
RECURSIVE NatStr(_)
NatStr(n) == IF n < 10 THEN <<Digits[n + 1]>>
             ELSE NatStr(n \div 10) \o <<Digits[(n % 10) + 1]>>

\* Number.prototype.toString of an integer
NumStr(n) == IF n < 0 THEN <<"-">> \o NatStr(-n) ELSE NatStr(n)

\* String.prototype.padStart(2, '0')
padStart2(s) == IF Len(s) >= 2 THEN s ELSE <<"0">> \o s

\* Number(s) for a string of decimal digits
RECURSIVE Number(_)
Number(s) == IF Len(s) = 0 THEN 0
             ELSE 10 * Number(SubSeq(s, 1, Len(s) - 1)) + DigitVal(s[Len(s)])

\* String.prototype.split(sep) for a one-character separator
RECURSIVE split(_, _)
split(s, sep) ==
    IF \A i \in 1..Len(s) : s[i] # sep THEN <<s>>
    ELSE LET i == CHOOSE j \in 1..Len(s) :
                      s[j] = sep /\ \A k \in 1..(j - 1) : s[k] # sep
         IN  <<SubSeq(s, 1, i - 1)>> \o split(SubSeq(s, i + 1, Len(s)), sep)

\* rank of a character in the collation order: hyphen, digits, letters
CharRank(c) == IF c = "-" THEN 0
               ELSE IF IsDigit(c) THEN 1 + DigitVal(c)
               ELSE 11

\* a.localeCompare(b) < 0 for titles made of digits and hyphens
RECURSIVE localeLess(_, _)
localeLess(a, b) ==
    IF Len(b) = 0 THEN FALSE
    ELSE IF Len(a) = 0 THEN TRUE
    ELSE IF CharRank(a[1]) # CharRank(b[1]) THEN CharRank(a[1]) < CharRank(b[1])
    ELSE localeLess(Tail(a), Tail(b))

----------------------------------------------------------------------------
(* Timestamp codec *)

\* an instant: a day of January 2025 and a second of that day, UTC
Instant(d, t) == [day |-> d, tod |-> t]

\* the k-th instant the clock shows
Schedule(k) == Instant(1 + ((k - 1) \div Len(ClockTimes)),
                       ClockTimes[((k - 1) % Len(ClockTimes)) + 1])

\* Date.now() at an instant, in milliseconds since the start of day 1
DateNow(date) == ((date.day - 1) * 86400 + date.tod) * 1000

cacheTTL == 5 * 60 * 1000

\* offsets (hours from UTC) of the time zone names the runtime knows
TzOffset == [z \in {"Etc/GMT+5", "Etc/GMT-1"} |->
                IF z = "Etc/GMT+5" THEN -5 ELSE 1]

\* getDateInTimezone taking a zone the runtime does not know for one five
\* hours behind UTC
getDateInTimezone_unknownShifts(date, timezone) ==
    IF timezone = "" \/ timezone = "UTC" THEN date
    ELSE LET s == (date.day - 1) * 86400 + date.tod
                  + 3600 * (IF timezone \in DOMAIN TzOffset
                            THEN TzOffset[timezone] ELSE -5)
         IN  [day |-> (s \div 86400) + 1, tod |-> s % 86400]

\* TimerService.getDateInTimezone: the civil date and time of an instant in
\* a zone; UTC, a missing zone and an unknown zone give the instant itself
getDateInTimezone(date, timezone) ==
    IF timezone = "" \/ timezone = "UTC" THEN date
    ELSE IF timezone \in DOMAIN TzOffset
         THEN LET s == (date.day - 1) * 86400 + date.tod
                       + 3600 * TzOffset[timezone]
              IN  [day |-> (s \div 86400) + 1, tod |-> s % 86400]
         ELSE date

\* date.toISOString().split('T')[0] of a day of January 2025
IsoDate(date) ==
    <<"2", "0", "2", "5", "-", "0", "1", "-">> \o padStart2(NumStr(date.day))

\* TimerService.formatTime12Hour: h:mm:ss AM/PM, hour unpadded
formatTime12Hour(date) ==
    LET h  == date.tod \div 3600
        m  == (date.tod \div 60) % 60
        s  == date.tod % 60
        hh == IF h % 12 = 0 THEN 12 ELSE h % 12
    IN  NumStr(hh) \o <<":">> \o padStart2(NumStr(m)) \o <<":">>
        \o padStart2(NumStr(s)) \o <<" ">>
        \o (IF h < 12 THEN <<"A", "M">> ELSE <<"P", "M">>)

\* parse12HourTime without the PM branch
parse12HourTime_noPM(timeString) ==
    LET parts    == split(timeString, " ")
        timePart == parts[1]
        period   == IF Len(parts) >= 2 THEN parts[2] ELSE <<>>
        hms      == split(timePart, ":")
        hours    == Number(hms[1])
        minutes  == IF Len(hms) >= 2 THEN Number(hms[2]) ELSE 0
        seconds  == IF Len(hms) >= 3 THEN Number(hms[3]) ELSE 0
        hour24   == IF period = <<"A", "M">> /\ hours = 12 THEN 0 ELSE hours
    IN  hour24 * 3600 + minutes * 60 + seconds

\* parse12HourTime without the 12 AM branch
parse12HourTime_noMidnight(timeString) ==
    LET parts    == split(timeString, " ")
        timePart == parts[1]
        period   == IF Len(parts) >= 2 THEN parts[2] ELSE <<>>
        hms      == split(timePart, ":")
        hours    == Number(hms[1])
        minutes  == IF Len(hms) >= 2 THEN Number(hms[2]) ELSE 0
        seconds  == IF Len(hms) >= 3 THEN Number(hms[3]) ELSE 0
        hour24   == IF period = <<"P", "M">> /\ hours # 12 THEN hours + 12
                    ELSE hours
    IN  hour24 * 3600 + minutes * 60 + seconds

\* TimerService.parse12HourTime: the second of the day a time string names
parse12HourTime(timeString) ==
    LET parts    == split(timeString, " ")
        timePart == parts[1]
        period   == IF Len(parts) >= 2 THEN parts[2] ELSE <<>>
        hms      == split(timePart, ":")
        hours    == Number(hms[1])
        minutes  == IF Len(hms) >= 2 THEN Number(hms[2]) ELSE 0
        seconds  == IF Len(hms) >= 3 THEN Number(hms[3]) ELSE 0
        hour24   == IF period = <<"A", "M">> /\ hours = 12 THEN 0
                    ELSE IF period = <<"P", "M">> /\ hours # 12 THEN hours + 12
                    ELSE hours
    IN  hour24 * 3600 + minutes * 60 + seconds

\* Math.floor((durationMs / 1000) % 60), durationMs = 1000 * d
durSeconds(d) == IF d >= 0 THEN d % 60 ELSE -((-d) % 60)

\* Math.floor((durationMs / (1000 * 60)) % 60)
durMinutes(d) == IF d >= 0 THEN (d \div 60) % 60
                 ELSE -((((-d) % 3600) + 59) \div 60)

\* the hours of a difference taken modulo 24 hours
durHours_wraps(d) == (d % 86400) \div 3600

\* Math.floor(durationMs / (1000 * 60 * 60))
durHours(d) == d \div 3600

\* stopTimer's duration string from the stored Start and the new End
durationOf(startTime, endTimeString) ==
    LET d == parse12HourTime(endTimeString) - parse12HourTime(startTime)
    IN  padStart2(NumStr(durHours(d))) \o <<":">>
        \o padStart2(NumStr(durMinutes(d))) \o <<":">>
        \o padStart2(NumStr(durSeconds(d)))

----------------------------------------------------------------------------
(* The document store behind GoogleSheetsService *)

\* no worksheet title, no rows, the empty string: all the empty sequence
None == <<>>

ConfigName == <<"C", "o", "n", "f", "i", "g">>

\* the worksheet every new document starts with
Sheet1 == <<"S", "h", "e", "e", "t", "1">>

\* a worksheet: cell A1 (the Invoiced checkbox of a period segment), the
\* key/value rows A1:B10 (Config), the data rows 6.. as <<Date, Start, End>>
\* the structural writes (validation, labels, widths, formats, formulas)
\* that batches have applied to it, and the cell reference that its Billable
\* Amount seed formula multiplies by (none before the formula is written)
BlankSheet ==
    [a1 |-> "", kv |-> <<>>, rows |-> <<>>, laid |-> <<>>, seed |-> <<>>]

\* the two rows createConfigSheet writes
DefaultKv == << <<"Hourly Rate", "100">>, <<"Timezone", "UTC">> >>

\* GoogleSheetsService.getWorksheets: the titles of a document
getWorksheets(ws) == DOMAIN ws

\* spreadsheets.batchUpdate addSheet is rejected for a title in use
canCreateWorksheet(ws, title) == title \notin DOMAIN ws

\* a new worksheet that comes with a data row holding a Start and no End
createWorksheet_seeded(ws, title) ==
    (title :> [BlankSheet EXCEPT
                  !.rows = << <<title, <<"9", ":", "0", "0", ":", "0", "0",
                                         " ", "A", "M">>, None>> >>]) @@ ws

\* GoogleSheetsService.createWorksheet
createWorksheet(ws, title) == (title :> BlankSheet) @@ ws

\* a row as values.get returns it: trailing empty cells are left out
RECURSIVE TrimRow(_)
TrimRow(r) == IF Len(r) > 0 /\ r[Len(r)] = None THEN TrimRow(SubSeq(r, 1, Len(r) - 1))
              ELSE r

\* getWorksheetData answering an empty range with one empty row
getWorksheetData_emptyRow(ws, worksheetName, range) ==
    LET sh == ws[worksheetName]
    IN  CASE range = "A1"     -> IF sh.a1 = "" THEN None ELSE << <<sh.a1>> >>
          [] range = "A1:B10" -> IF sh.kv = <<>> THEN << <<>> >> ELSE sh.kv
          [] range = "A6:C"   -> [i \in 1..Len(sh.rows) |-> TrimRow(sh.rows[i])]

\* GoogleSheetsService.getWorksheetData: the values of a range, None
\* (undefined) when the range holds no value
getWorksheetData(ws, worksheetName, range) ==
    LET sh == ws[worksheetName]
    IN  CASE range = "A1"     -> IF sh.a1 = "" THEN None ELSE << <<sh.a1>> >>
          [] range = "A1:B10" -> sh.kv
          [] range = "A6:C"   -> [i \in 1..Len(sh.rows) |-> TrimRow(sh.rows[i])]

\* values.get fails for a worksheet that does not exist
canRead(ws, worksheetName) == worksheetName \in DOMAIN ws

\* appendRow putting the values above the first data row
appendRow_atTop(ws, worksheetName, values) ==
    [ws EXCEPT ![worksheetName].rows =
        << <<values[1], values[2], None>> >> \o @]

\* appendRow putting the values into two rows
appendRow_twice(ws, worksheetName, values) ==
    [ws EXCEPT ![worksheetName].rows =
        @ \o << <<values[1], values[2], None>>, <<values[1], values[2], None>> >>]

\* GoogleSheetsService.appendRow: the values go below the last data row
appendRow(ws, worksheetName, values) ==
    [ws EXCEPT ![worksheetName].rows =
        Append(@, <<values[1], values[2], None>>)]

\* updateCell writing into column B of the row
updateCell_startColumn(ws, worksheetName, index, value) ==
    [ws EXCEPT ![worksheetName].rows =
        [i \in 1..Len(@) |-> IF i = index - 5
                             THEN <<@[i][1], value, @[i][3]>> ELSE @[i]]]

\* updateCell writing into column C of the first data row
updateCell_firstRow(ws, worksheetName, index, value) ==
    [ws EXCEPT ![worksheetName].rows =
        [i \in 1..Len(@) |-> IF i = 1
                             THEN <<@[i][1], @[i][2], value>> ELSE @[i]]]

\* GoogleSheetsService.updateCell for a cell C<index> of the data region
updateCell(ws, worksheetName, index, value) ==
    [ws EXCEPT ![worksheetName].rows =
        [i \in 1..Len(@) |-> IF i = index - 5
                             THEN <<@[i][1], @[i][2], value>> ELSE @[i]]]

\* createNewTimeSheet's requests with the seed formulas addressed to the
\* first worksheet of the document
layoutRequests_firstSheet(newSheetId) ==
    << [write |-> "dataValidation", sheetId |-> newSheetId],
       [write |-> "totals", sheetId |-> newSheetId],
       [write |-> "headers", sheetId |-> newSheetId],
       [write |-> "pixelSize", sheetId |-> newSheetId],
       [write |-> "DATE", sheetId |-> newSheetId],
       [write |-> "TIME", sheetId |-> newSheetId],
       [write |-> "[h]:mm:ss", sheetId |-> newSheetId],
       [write |-> "CURRENCY", sheetId |-> newSheetId],
       [write |-> "formulas", sheetId |-> Sheet1] >>

\* the requests createNewTimeSheet builds (lines 142-239), in their order:
\* what each one writes and the sheet id it is addressed to
layoutRequests(newSheetId) ==
    << [write |-> "dataValidation", sheetId |-> newSheetId],
       [write |-> "totals", sheetId |-> newSheetId],
       [write |-> "headers", sheetId |-> newSheetId],
       [write |-> "pixelSize", sheetId |-> newSheetId],
       [write |-> "DATE", sheetId |-> newSheetId],
       [write |-> "TIME", sheetId |-> newSheetId],
       [write |-> "[h]:mm:ss", sheetId |-> newSheetId],
       [write |-> "CURRENCY", sheetId |-> newSheetId],
       [write |-> "formulas", sheetId |-> newSheetId] >>

\* the structural writes that requests address to one worksheet
RECURSIVE writesTo(_, _)
writesTo(requests, sheetId) ==
    IF requests = <<>> THEN <<>>
    ELSE (IF Head(requests).sheetId = sheetId
          THEN <<Head(requests).write>> ELSE <<>>)
         \o writesTo(Tail(requests), sheetId)

\* the Billable Amount seed formula referring to the second Config row
billableRateRef_B2 ==
    [sheet |-> ConfigName, cell |-> <<"$", "B", "$", "2">>]

\* the reference Config!$B$1 in the Billable Amount seed formula (line 231)
billableRateRef ==
    [sheet |-> ConfigName, cell |-> <<"$", "B", "$", "1">>]

\* GoogleSheetsService.batchUpdate with createNewTimeSheet's requests:
\* each request is applied to the worksheet whose sheet id it carries; the
\* worksheet that receives the seed formulas holds their rate reference
batchUpdateLayout(ws, newSheetId) ==
    [name \in DOMAIN ws |->
        LET writes == writesTo(layoutRequests(newSheetId), name)
        IN  [ws[name] EXCEPT
                !.laid = @ \o writes,
                !.seed = IF \E i \in 1..Len(writes) : writes[i] = "formulas"
                         THEN billableRateRef ELSE @]]

\* the grid address createConfigSheet's updateCells starts at (line 320)
configStart == [rowIndex |-> 0, columnIndex |-> 0]

\* updateCells on a blank worksheet: the rows of the grid once `rows` are
\* written from `start`, the cells skipped before them empty
updateCells(rows, start) ==
    [i \in 1..(start.rowIndex + Len(rows)) |->
        IF i <= start.rowIndex THEN <<>>
        ELSE [j \in 1..start.columnIndex |-> ""] \o rows[i - start.rowIndex]]

\* the letters of the columns a worksheet of this program uses
ColumnLetters == <<"A", "B", "C", "D", "E">>

\* the zero-based grid address an absolute A1 reference $<column><$row> names
gridAddress(cell) ==
    [rowIndex    |-> DigitVal(cell[4]) - 1,
     columnIndex |-> (CHOOSE j \in 1..Len(ColumnLetters) :
                         ColumnLetters[j] = cell[2]) - 1]

\* the value a formula reads from a cell of the Config worksheet: empty
\* when the worksheet or the cell is absent
cellValue(ws, sheet, at) ==
    IF sheet \notin DOMAIN ws THEN ""
    ELSE LET grid == ws[sheet].kv
         IN  IF at.rowIndex + 1 > Len(grid) THEN ""
             ELSE IF at.columnIndex + 1 > Len(grid[at.rowIndex + 1]) THEN ""
             ELSE grid[at.rowIndex + 1][at.columnIndex + 1]

\* GoogleSheetsService.batchUpdate with createConfigSheet's requests: the
\* two default rows, the currency format of column B and the column widths
batchUpdateConfig(ws, configSheetId) ==
    [ws EXCEPT ![configSheetId].kv = updateCells(DefaultKv, configStart),
               ![configSheetId].laid = @ \o <<"values", "CURRENCY", "pixelSize">>]
----------------------------------------------------------------------------
(* Pure parts of TimerService *)

\* JavaScript truthiness of a cell value: neither undefined nor ''
Truthy(v) == v # None

\* row[j] of a JavaScript array (j counts from 0); None when out of range
Cell(row, j) == IF j + 1 <= Len(row) THEN row[j + 1] ELSE None

\* the pattern without its end anchor: /^\d{4}-\d{2}-\d{2}/
dateRegex_noEndAnchor(name) ==
    /\ Len(name) >= 10
    /\ \A i \in 1..10 : IF i \in {5, 8} THEN name[i] = "-" ELSE IsDigit(name[i])

\* /^\d{4}-\d{2}-\d{2}$/.test(name)
dateRegex(name) ==
    /\ Len(name) = 10
    /\ \A i \in 1..10 : IF i \in {5, 8} THEN name[i] = "-" ELSE IsDigit(name[i])

\* .sort((a, b) => b.localeCompare(a)): descending
RECURSIVE sortDescending(_)
sortDescending(S) ==
    IF S = {} THEN <<>>
    ELSE LET m == CHOOSE x \in S : \A y \in S : y = x \/ localeLess(y, x)
         IN  <<m>> \o sortDescending(S \ {m})

\* the candidates in ascending order: least first
sortedSheets_ascending(worksheets) ==
    LET desc == sortDescending({name \in worksheets : dateRegex(name)})
    IN  [i \in 1..Len(desc) |-> desc[Len(desc) + 1 - i]]

\* getCurrentSheet's candidates: the date-named titles, greatest first
sortedSheets(worksheets) ==
    sortDescending({name \in worksheets : dateRegex(name)})

\* getCurrentSheet's test taking every worksheet for not invoiced
notInvoiced_ignoresFlag(invoicedData) == TRUE

\* getCurrentSheet's test of a candidate's A1 value
notInvoiced(invoicedData) ==
    \/ invoicedData = None
    \/ Cell(invoicedData, 0) = None
    \/ Cell(Cell(invoicedData, 0), 0) # "TRUE"

\* isTimerRunning without its look at the End cell
isTimerRunning_ignoresEnd(data) ==
    IF data = None \/ Len(data) = 0 THEN FALSE
    ELSE LET lastRow == data[Len(data)]
         IN  Truthy(Cell(lastRow, 1))

\* isTimerRunning reading Start and End one column too far to the right
isTimerRunning_wrongColumns(data) ==
    IF data = None \/ Len(data) = 0 THEN FALSE
    ELSE LET lastRow == data[Len(data)]
         IN  Truthy(Cell(lastRow, 2)) /\ ~Truthy(Cell(lastRow, 3))

\* isTimerRunning looking at every row for a Start without an End
isTimerRunning_anyRow(data) ==
    IF data = None \/ Len(data) = 0 THEN FALSE
    ELSE \E i \in 1..Len(data) :
            Truthy(Cell(data[i], 1)) /\ ~Truthy(Cell(data[i], 2))

\* TimerService.isTimerRunning on the values of A6:C
isTimerRunning(data) ==
    IF data = None \/ Len(data) = 0 THEN FALSE
    ELSE LET lastRow == data[Len(data)]
         IN  Truthy(Cell(lastRow, 1)) /\ ~Truthy(Cell(lastRow, 2))

\* findActiveTimerRow scanning all rows for one with a Start and no End
findActiveTimerRow_scans(data) ==
    IF data = None \/ Len(data) = 0 THEN None
    ELSE LET open == {i \in 1..Len(data) :
                         Truthy(Cell(data[i], 1)) /\ ~Truthy(Cell(data[i], 2))}
         IN  IF open = {} THEN None
             ELSE LET i == CHOOSE i \in open : \A j \in open : i <= j
                  IN  <<data[i], i + 5>>

\* findActiveTimerRow without its look at the End cell
findActiveTimerRow_ignoresEnd(data) ==
    IF data = None \/ Len(data) = 0 THEN None
    ELSE LET lastRowIndex == Len(data) - 1
             lastRow      == data[lastRowIndex + 1]
         IN  IF Truthy(Cell(lastRow, 1))
             THEN <<lastRow, lastRowIndex + 6>>
             ELSE None

\* findActiveTimerRow numbering the data rows from sheet row 5
findActiveTimerRow_offByOne(data) ==
    IF data = None \/ Len(data) = 0 THEN None
    ELSE LET lastRowIndex == Len(data) - 1
             lastRow      == data[lastRowIndex + 1]
         IN  IF Truthy(Cell(lastRow, 1)) /\ ~Truthy(Cell(lastRow, 2))
             THEN <<lastRow, lastRowIndex + 5>>
             ELSE None

\* TimerService.findActiveTimerRow on the values of A6:C: the last row and
\* its sheet row number, or None
findActiveTimerRow(data) ==
    IF data = None \/ Len(data) = 0 THEN None
    ELSE LET lastRowIndex == Len(data) - 1
             lastRow      == data[lastRowIndex + 1]
         IN  IF Truthy(Cell(lastRow, 1)) /\ ~Truthy(Cell(lastRow, 2))
             THEN <<lastRow, lastRowIndex + 6>>
             ELSE None

\* the configuration object: setting name -> value
EmptyConfig == [k \in {} |-> ""]

defaultConfig == [k \in {"Hourly Rate", "Timezone"} |->
                    IF k = "Hourly Rate" THEN "100" ELSE "UTC"]

\* getConfig's data.reduce: rows with both columns, later rows win
RECURSIVE foldConfig(_)
foldConfig(data) ==
    IF Len(data) = 0 THEN EmptyConfig
    ELSE LET acc == foldConfig(SubSeq(data, 1, Len(data) - 1))
             row == data[Len(data)]
         IN  IF Len(row) >= 2 /\ row[1] # "" /\ row[2] # ""
             THEN (row[1] :> row[2]) @@ acc
             ELSE acc

\* config['Timezone'] || 'UTC'
timezoneOf(config) ==
    IF "Timezone" \in DOMAIN config /\ config["Timezone"] # ""
    THEN config["Timezone"] ELSE "UTC"

\* a cache entry; has = FALSE is the missing key
NoEntry == [has |-> FALSE, config |-> EmptyConfig, timestamp |-> 0]

\* the age in milliseconds held against the TTL in seconds
cacheFresh_seconds(cached, now) ==
    cached.has /\ now - cached.timestamp < cacheTTL \div 1000

\* an entry as old as the TTL taken for fresh
cacheFresh_inclusive(cached, now) ==
    cached.has /\ now - cached.timestamp <= cacheTTL

\* getConfig's test: a cached entry younger than the TTL
cacheFresh(cached, now) ==
    cached.has /\ now - cached.timestamp < cacheTTL

----------------------------------------------------------------------------
(* Calls in flight *)

\* no instant: the endTime argument left out
NoTime == [day |-> 0, tod |-> 0]

NoResult == [status |-> "", sheet |-> None, date |-> None, start |-> None,
             end |-> NoTime, duration |-> None, config |-> EmptyConfig]

\* what last[d] holds before any startTimer or stopTimer succeeded on d
NoLast == [op |-> "none", sheet |-> None, closed |-> FALSE, started |-> FALSE]

NoPre == [ws |-> << >>, cache |-> NoEntry, last |-> NoLast]

\* what getCurrentSheet returned to the call: nothing yet, or a title
\* (None for null)
NoAnswer == [set |-> FALSE, name |-> None]

\* a free call slot
IdleProc ==
    [pc |-> "idle", op |-> "", doc |-> "", endTime |-> NoTime,
     config |-> EmptyConfig, ctx |-> "", sheetName |-> None,
     sorted |-> <<>>, resolved |-> NoAnswer, currentSheet |-> None,
     created |-> None,
     row |-> None, activeTimer |-> None, end |-> NoTime,
     result |-> NoResult, response |-> 0, trace |-> <<>>, pre |-> NoPre]

\* the record of one store call in a call's trace
StoreCall(call, sheet, ok) == [call |-> call, sheet |-> sheet, ok |-> ok]

Traced(pr, call, sheet, ok) ==
    [pr EXCEPT !.trace = Append(@, StoreCall(call, sheet, ok))]

\* errors.ts: the subclasses of ApiError that TimerService throws, with
\* the statusCode their constructors set
ApiErrorStatus ==
    [error \in {"TimerAlreadyRunning", "NoActiveTimer"} |->
        IF error = "TimerAlreadyRunning" THEN 409 ELSE 404]

\* handleError answering every error but TimerAlreadyRunning with 404
handleError_notFound(error) ==
    IF error = "TimerAlreadyRunning" THEN 409 ELSE 404

\* handleError: the status of the response built for a thrown error
handleError(error) ==
    IF error \in DOMAIN ApiErrorStatus THEN ApiErrorStatus[error] ELSE 500

\* the routes POST /timer/start and POST /timer/stop: the status of the
\* response to a call that returned or threw
timerRoutes(res) ==
    IF res.status = "ok" THEN 200 ELSE handleError(res.status)

\* the call returns or throws: its locals go, its outcome stays, with the
\* response the routes send for it (getConfig has no route)
Finish(pr, res) ==
    [IdleProc EXCEPT !.pc = "done", !.op = pr.op, !.doc = pr.doc,
                     !.response = IF pr.op = "getConfig" THEN 0
                                  ELSE timerRoutes(res),
                     !.resolved = pr.resolved,
                     !.currentSheet = pr.currentSheet, !.created = pr.created,
                     !.result = res, !.trace = pr.trace, !.pre = pr.pre]

Throw(pr, status) == Finish(pr, [NoResult EXCEPT !.status = status])

\* getConfig has returned config to its caller
AfterConfig(pr, config) ==
    IF pr.op = "getConfig"
    THEN Finish(pr, [NoResult EXCEPT !.status = "ok", !.config = config])
    ELSE [pr EXCEPT !.config = config, !.pc = "getCurrentSheet_getWorksheets"]

\* stopTimer without its test of a null currentSheet: findActiveTimerRow
\* then asks the store for the rows of a worksheet that does not exist
AfterCurrentSheet_noNullTest(pr, name, now) ==
    LET got == [pr EXCEPT !.sorted = <<>>,
                          !.resolved = [set |-> TRUE, name |-> name]]
    IN  IF name # None
        THEN [got EXCEPT !.currentSheet = name,
                         !.pc = IF pr.op = "start"
                                THEN "isTimerRunning_getWorksheetData"
                                ELSE "findActiveTimerRow_getWorksheetData"]
        ELSE IF pr.op = "start"
        THEN [got EXCEPT !.sheetName =
                             IsoDate(getDateInTimezone(now, timezoneOf(pr.config))),
                         !.pc = "ensureConfigSheetExists_getWorksheets"]
        ELSE [got EXCEPT !.pc = "findActiveTimerRow_getWorksheetData"]

\* startTimer entering createNewTimeSheet whatever getCurrentSheet returned
AfterCurrentSheet_alwaysCreates(pr, name, now) ==
    LET got == [pr EXCEPT !.sorted = <<>>,
                          !.resolved = [set |-> TRUE, name |-> name]]
    IN  IF pr.op = "start"
        THEN [got EXCEPT !.sheetName =
                             IsoDate(getDateInTimezone(now, timezoneOf(pr.config))),
                         !.pc = "ensureConfigSheetExists_getWorksheets"]
        ELSE IF name # None
        THEN [got EXCEPT !.currentSheet = name,
                         !.pc = "findActiveTimerRow_getWorksheetData"]
        ELSE Throw(got, "NoActiveTimer")

\* getCurrentSheet has returned name (None for null) to startTimer, which
\* enters createNewTimeSheet on null, or to stopTimer, which throws on null
AfterCurrentSheet(pr, name, now) ==
    LET got == [pr EXCEPT !.sorted = <<>>,
                          !.resolved = [set |-> TRUE, name |-> name]]
    IN  IF name # None
        THEN [got EXCEPT !.currentSheet = name,
                         !.pc = IF pr.op = "start"
                                THEN "isTimerRunning_getWorksheetData"
                                ELSE "findActiveTimerRow_getWorksheetData"]
        ELSE IF pr.op = "start"
        THEN [got EXCEPT !.sheetName =
                             IsoDate(getDateInTimezone(now, timezoneOf(pr.config))),
                         !.pc = "ensureConfigSheetExists_getWorksheets"]
        ELSE Throw(got, "NoActiveTimer")

\* a store call of createConfigSheet has thrown: getConfig lets it through,
\* the try block of ensureConfigSheetExists catches it and calls
\* createConfigSheet once more, its catch block lets it through
AfterConfigSheetThrow(pr) ==
    IF pr.ctx = "ensureTry"
    THEN [pr EXCEPT !.ctx = "ensureCatch", !.pc = "createConfigSheet_createWorksheet"]
    ELSE Throw(pr, "StoreError")

\* last[d] after a step of a call on d: a successful startTimer or stopTimer
\* is recorded with the segment it acted on
LastAfter(old, pr) ==
    IF pr.pc = "done" /\ pr.result.status = "ok" /\ pr.op \in {"start", "stop"}
    THEN [op |-> pr.op, sheet |-> pr.result.sheet, closed |-> FALSE,
          started |-> old.started \/ pr.op = "start"]
    ELSE old

\* the data rows of all worksheets of a document
TotalRows(ws) ==
    LET RECURSIVE Sum(_)
        Sum(S) == IF S = {} THEN 0
                  ELSE LET n == CHOOSE x \in S : TRUE
                       IN  Len(ws[n].rows) + Sum(S \ {n})
    IN  Sum(DOMAIN ws)

\* the startTimer calls in flight on a document
StartsInFlight(d) ==
    Cardinality({q \in Procs : proc[q].pc \notin {"idle", "done"}
                               /\ proc[q].op = "start" /\ proc[q].doc = d})

Quiescent == \A q \in Procs : proc[q].pc = "idle"

\* a step that keeps one cache entry for all documents
StepTo_oneEntry(p, pr, ws, entry) ==
    /\ proc' = [proc EXCEPT ![p] = pr]
    /\ store' = [store EXCEPT ![pr.doc] = ws]
    /\ configCache' = [d \in Docs |-> entry]
    /\ last' = [last EXCEPT ![pr.doc] = LastAfter(@, pr)]
    /\ UNCHANGED clock

\* one step of call p: the slot changes to pr, the document's worksheets
\* to ws and its cache entry to entry
StepTo(p, pr, ws, entry) ==
    /\ proc' = [proc EXCEPT ![p] = pr]
    /\ store' = [store EXCEPT ![pr.doc] = ws]
    /\ configCache' = [configCache EXCEPT ![pr.doc] = entry]
    /\ last' = [last EXCEPT ![pr.doc] = LastAfter(@, pr)]
    /\ UNCHANGED clock

----------------------------------------------------------------------------
(* TimerService.getConfig and createConfigSheet *)

\* a call enters getConfig (directly, or as the first statement of
\* startTimer / stopTimer): a fresh cache entry is returned at once,
\* otherwise the Config range is requested
EnterGetConfig(p, pr) ==
    LET d      == pr.doc
        cached == configCache[d]
    IN  IF cacheFresh(cached, DateNow(clock))
        THEN StepTo(p, AfterConfig(pr, cached.config), store[d], cached)
        ELSE StepTo(p, [pr EXCEPT !.pc = "getConfig_getWorksheetData"],
                    store[d], cached)

\* a request arrives for a free slot
Invoke(p, op, d, endTime) ==
    /\ proc[p].pc = "idle"
    /\ EnterGetConfig(p, [IdleProc EXCEPT
            !.op = op, !.doc = d, !.endTime = endTime,
            !.pre = [ws |-> store[d], cache |-> configCache[d], last |-> last[d]]])

getConfig(p, d) == Invoke(p, "getConfig", d, NoTime)

\* getConfig, line 271: the read of Config!A1:B10 answers
getConfig_getWorksheetData(p, ok) ==
    /\ proc[p].pc = "getConfig_getWorksheetData"
    /\ LET d       == proc[p].doc
           ws      == store[d]
           success == ok /\ canRead(ws, ConfigName)
           pr      == Traced(proc[p], "getWorksheetData", ConfigName, success)
           data    == getWorksheetData(ws, ConfigName, "A1:B10")
       IN  IF ~success
           THEN StepTo(p, [pr EXCEPT !.ctx = "getConfig",
                                     !.pc = "createConfigSheet_createWorksheet"],
                       ws, configCache[d])
           ELSE IF data = None
           THEN StepTo(p, Throw(pr, "ConfigNotFound"), ws, configCache[d])
           ELSE StepTo(p, AfterConfig(pr, foldConfig(data)), ws,
                       [has |-> TRUE, config |-> foldConfig(data),
                        timestamp |-> DateNow(clock)])

\* createConfigSheet, line 299: createWorksheet('Config') answers
createConfigSheet_createWorksheet(p, ok) ==
    /\ proc[p].pc = "createConfigSheet_createWorksheet"
    /\ LET d       == proc[p].doc
           ws      == store[d]
           success == ok /\ canCreateWorksheet(ws, ConfigName)
           pr      == Traced(proc[p], "createWorksheet", ConfigName, success)
       IN  IF success
           THEN StepTo(p, [pr EXCEPT !.pc = "createConfigSheet_batchUpdate"],
                       createWorksheet(ws, ConfigName), configCache[d])
           ELSE StepTo(p, AfterConfigSheetThrow(pr), ws, configCache[d])

\* createConfigSheet, line 349: the batch with the default rows answers;
\* getConfig then caches and returns the defaults (lines 276-278),
\* ensureConfigSheetExists returns to createNewTimeSheet (line 135)
createConfigSheet_batchUpdate(p, ok) ==
    /\ proc[p].pc = "createConfigSheet_batchUpdate"
    /\ LET d  == proc[p].doc
           ws == store[d]
           pr == Traced(proc[p], "batchUpdate", ConfigName, ok)
       IN  IF ~ok
           THEN StepTo(p, AfterConfigSheetThrow(pr), ws, configCache[d])
           ELSE IF pr.ctx = "getConfig"
           THEN StepTo(p, AfterConfig(pr, defaultConfig),
                       batchUpdateConfig(ws, ConfigName),
                       [has |-> TRUE, config |-> defaultConfig,
                        timestamp |-> DateNow(clock)])
           ELSE StepTo(p, [pr EXCEPT !.pc = "createNewTimeSheet_createWorksheet"],
                       batchUpdateConfig(ws, ConfigName), configCache[d])

----------------------------------------------------------------------------
(* TimerService.getCurrentSheet *)

\* getCurrentSheet, line 109: getWorksheets answers; the date-named titles
\* are sorted and the first candidate's A1 is requested
getCurrentSheet_getWorksheets(p, ok) ==
    /\ proc[p].pc = "getCurrentSheet_getWorksheets"
    /\ LET d      == proc[p].doc
           ws     == store[d]
           pr     == Traced(proc[p], "getWorksheets", None, ok)
           sorted == sortedSheets(getWorksheets(ws))
       IN  IF ~ok
           THEN StepTo(p, Throw(pr, "StoreError"), ws, configCache[d])
           ELSE IF sorted = <<>>
           THEN StepTo(p, AfterCurrentSheet(pr, None, clock),
                       ws, configCache[d])
           ELSE StepTo(p, [pr EXCEPT !.sorted = sorted,
                                     !.pc = "getCurrentSheet_getWorksheetData"],
                       ws, configCache[d])

\* getCurrentSheet writing FALSE into the A1 of a candidate it accepts
getCurrentSheet_getWorksheetData_writesFlag(p, ok) ==
    /\ proc[p].pc = "getCurrentSheet_getWorksheetData"
    /\ LET d         == proc[p].doc
           ws        == store[d]
           sheetName == Head(proc[p].sorted)
           success   == ok /\ canRead(ws, sheetName)
           pr        == Traced(proc[p], "getWorksheetData", sheetName, success)
       IN  IF ~success
           THEN StepTo(p, Throw(pr, "StoreError"), ws, configCache[d])
           ELSE IF notInvoiced(getWorksheetData(ws, sheetName, "A1"))
           THEN StepTo(p, AfterCurrentSheet(pr, sheetName, clock),
                       [ws EXCEPT ![sheetName].a1 = "FALSE"], configCache[d])
           ELSE IF Tail(pr.sorted) = <<>>
           THEN StepTo(p, AfterCurrentSheet(pr, None, clock),
                       ws, configCache[d])
           ELSE StepTo(p, [pr EXCEPT !.sorted = Tail(@)], ws, configCache[d])

\* getCurrentSheet, line 116: the A1 value of the next candidate answers
getCurrentSheet_getWorksheetData(p, ok) ==
    /\ proc[p].pc = "getCurrentSheet_getWorksheetData"
    /\ LET d         == proc[p].doc
           ws        == store[d]
           sheetName == Head(proc[p].sorted)
           success   == ok /\ canRead(ws, sheetName)
           pr        == Traced(proc[p], "getWorksheetData", sheetName, success)
       IN  IF ~success
           THEN StepTo(p, Throw(pr, "StoreError"), ws, configCache[d])
           ELSE IF notInvoiced(getWorksheetData(ws, sheetName, "A1"))
           THEN StepTo(p, AfterCurrentSheet(pr, sheetName, clock),
                       ws, configCache[d])
           ELSE IF Tail(pr.sorted) = <<>>
           THEN StepTo(p, AfterCurrentSheet(pr, None, clock),
                       ws, configCache[d])
           ELSE StepTo(p, [pr EXCEPT !.sorted = Tail(@)], ws, configCache[d])

----------------------------------------------------------------------------
(* TimerService.createNewTimeSheet and ensureConfigSheetExists *)

\* ensureConfigSheetExists going on without creating a missing Config
ensureConfigSheetExists_getWorksheets_noCreate(p, ok) ==
    /\ proc[p].pc = "ensureConfigSheetExists_getWorksheets"
    /\ LET d  == proc[p].doc
           ws == store[d]
           pr == Traced(proc[p], "getWorksheets", None, ok)
       IN  IF ~ok
           THEN StepTo(p, [pr EXCEPT !.ctx = "ensureCatch",
                                     !.pc = "createConfigSheet_createWorksheet"],
                       ws, configCache[d])
           ELSE StepTo(p, [pr EXCEPT !.pc = "createNewTimeSheet_createWorksheet"],
                       ws, configCache[d])

\* ensureConfigSheetExists, line 355: getWorksheets answers; a missing
\* Config is created in the try block, a failed listing in the catch block
ensureConfigSheetExists_getWorksheets(p, ok) ==
    /\ proc[p].pc = "ensureConfigSheetExists_getWorksheets"
    /\ LET d  == proc[p].doc
           ws == store[d]
           pr == Traced(proc[p], "getWorksheets", None, ok)
       IN  IF ~ok
           THEN StepTo(p, [pr EXCEPT !.ctx = "ensureCatch",
                                     !.pc = "createConfigSheet_createWorksheet"],
                       ws, configCache[d])
           ELSE IF \E name \in getWorksheets(ws) : name = ConfigName
           THEN StepTo(p, [pr EXCEPT !.pc = "createNewTimeSheet_createWorksheet"],
                       ws, configCache[d])
           ELSE StepTo(p, [pr EXCEPT !.ctx = "ensureTry",
                                     !.pc = "createConfigSheet_createWorksheet"],
                       ws, configCache[d])

\* createNewTimeSheet going on to its layout batch after a rejected
\* createWorksheet
createNewTimeSheet_createWorksheet_goesOn(p, ok) ==
    /\ proc[p].pc = "createNewTimeSheet_createWorksheet"
    /\ LET d       == proc[p].doc
           ws      == store[d]
           success == ok /\ canCreateWorksheet(ws, proc[p].sheetName)
           pr      == Traced(proc[p], "createWorksheet", proc[p].sheetName, success)
       IN  StepTo(p, [pr EXCEPT !.created = IF success THEN pr.sheetName ELSE @,
                                !.pc = "createNewTimeSheet_batchUpdate"],
                  IF success THEN createWorksheet(ws, pr.sheetName) ELSE ws,
                  configCache[d])

\* createNewTimeSheet, line 135: createWorksheet(sheetName) answers
createNewTimeSheet_createWorksheet(p, ok) ==
    /\ proc[p].pc = "createNewTimeSheet_createWorksheet"
    /\ LET d       == proc[p].doc
           ws      == store[d]
           success == ok /\ canCreateWorksheet(ws, proc[p].sheetName)
           pr      == Traced(proc[p], "createWorksheet", proc[p].sheetName, success)
       IN  IF success
           THEN StepTo(p, [pr EXCEPT !.created = pr.sheetName,
                                     !.pc = "createNewTimeSheet_batchUpdate"],
                       createWorksheet(ws, pr.sheetName), configCache[d])
           ELSE StepTo(p, Throw(pr, "StoreError"), ws, configCache[d])

\* createNewTimeSheet, line 241: the layout batch answers; the new title is
\* startTimer's currentSheet
createNewTimeSheet_batchUpdate(p, ok) ==
    /\ proc[p].pc = "createNewTimeSheet_batchUpdate"
    /\ LET d  == proc[p].doc
           ws == store[d]
           pr == Traced(proc[p], "batchUpdate", proc[p].sheetName, ok)
       IN  IF ok
           THEN StepTo(p, [pr EXCEPT !.currentSheet = pr.sheetName,
                                     !.pc = "isTimerRunning_getWorksheetData"],
                       batchUpdateLayout(ws, pr.sheetName), configCache[d])
           ELSE StepTo(p, Throw(pr, "StoreError"), ws, configCache[d])

----------------------------------------------------------------------------
(* TimerService.startTimer and stopTimer *)

\* a start request, while the document has room for a row (R rows at most)
startTimer(p, d, R) ==
    /\ TotalRows(store[d]) + StartsInFlight(d) < R
    /\ Invoke(p, "start", d, NoTime)

\* a stop request, with or without an explicit end instant
stopTimer(p, d, endTime) == Invoke(p, "stop", d, endTime)

\* startTimer, line 22: isTimerRunning's read of A6:C answers; a running
\* timer throws, otherwise the row [date, time] is built (lines 27-30)
isTimerRunning_getWorksheetData(p, ok) ==
    /\ proc[p].pc = "isTimerRunning_getWorksheetData"
    /\ LET d       == proc[p].doc
           ws      == store[d]
           success == ok /\ canRead(ws, proc[p].currentSheet)
           pr      == Traced(proc[p], "getWorksheetData", proc[p].currentSheet, success)
           now     == getDateInTimezone(clock, timezoneOf(pr.config))
       IN  IF ~success
           THEN StepTo(p, Throw(pr, "StoreError"), ws, configCache[d])
           ELSE IF isTimerRunning(getWorksheetData(ws, pr.currentSheet, "A6:C"))
           THEN StepTo(p, Throw(pr, "TimerAlreadyRunning"), ws, configCache[d])
           ELSE StepTo(p, [pr EXCEPT !.row = <<IsoDate(now), formatTime12Hour(now)>>,
                                     !.pc = "startTimer_appendRow"],
                       ws, configCache[d])

\* startTimer, line 32: appendRow answers and the call returns
startTimer_appendRow(p, ok) ==
    /\ proc[p].pc = "startTimer_appendRow"
    /\ LET d       == proc[p].doc
           ws      == store[d]
           success == ok /\ canRead(ws, proc[p].currentSheet)
           pr      == Traced(proc[p], "appendRow", proc[p].currentSheet, success)
       IN  IF success
           THEN StepTo(p, Finish(pr, [NoResult EXCEPT
                               !.status = "ok", !.sheet = pr.currentSheet,
                               !.date = pr.row[1], !.start = pr.row[2]]),
                       appendRow(ws, pr.currentSheet, pr.row), configCache[d])
           ELSE StepTo(p, Throw(pr, "StoreError"), ws, configCache[d])

\* stopTimer, line 50: findActiveTimerRow's read of A6:C answers; without
\* an open last row the call throws, otherwise the end time is taken
\* (lines 55-58)
findActiveTimerRow_getWorksheetData(p, ok) ==
    /\ proc[p].pc = "findActiveTimerRow_getWorksheetData"
    /\ LET d           == proc[p].doc
           ws          == store[d]
           success     == ok /\ canRead(ws, proc[p].currentSheet)
           pr          == Traced(proc[p], "getWorksheetData", proc[p].currentSheet, success)
           activeTimer == findActiveTimerRow(getWorksheetData(ws, pr.currentSheet, "A6:C"))
           actualEndTime == IF pr.endTime # NoTime THEN pr.endTime
                            ELSE clock
       IN  IF ~success
           THEN StepTo(p, Throw(pr, "StoreError"), ws, configCache[d])
           ELSE IF activeTimer = None
           THEN StepTo(p, Throw(pr, "NoActiveTimer"), ws, configCache[d])
           ELSE StepTo(p, [pr EXCEPT
                               !.activeTimer = activeTimer,
                               !.end = getDateInTimezone(actualEndTime,
                                                         timezoneOf(pr.config)),
                               !.pc = "stopTimer_updateCell"],
                       ws, configCache[d])

\* stopTimer, line 60: updateCell answers; the duration is computed from
\* the Start read before and the End just written (lines 62-81)
stopTimer_updateCell(p, ok) ==
    /\ proc[p].pc = "stopTimer_updateCell"
    /\ LET d             == proc[p].doc
           ws            == store[d]
           success       == ok /\ canRead(ws, proc[p].currentSheet)
           pr            == Traced(proc[p], "updateCell", proc[p].currentSheet, success)
           endTimeString == formatTime12Hour(pr.end)
           startTime     == Cell(pr.activeTimer[1], 1)
       IN  IF success
           THEN StepTo(p, Finish(pr, [NoResult EXCEPT
                               !.status = "ok", !.sheet = pr.currentSheet,
                               !.end = pr.end,
                               !.duration = durationOf(startTime, endTimeString)]),
                       updateCell(ws, pr.currentSheet, pr.activeTimer[2], endTimeString),
                       configCache[d])
           ELSE StepTo(p, Throw(pr, "StoreError"), ws, configCache[d])

\* the caller has its answer: the slot is free again
Return(p) ==
    /\ proc[p].pc = "done"
    /\ proc' = [proc EXCEPT ![p] = IdleProc]
    /\ UNCHANGED <<store, configCache, clock, last>>

----------------------------------------------------------------------------
(* The time codec on its own *)

\* the seconds of a day: hours 0..23, minutes 0..59, seconds 0..59
SecondsOfDay == 0..(24 * 3600 - 1)

\* formatTime12Hour is applied to the instant the clock shows
FormatTime(p) ==
    /\ proc[p].pc = "idle"
    /\ proc' = [proc EXCEPT ![p] =
                   [IdleProc EXCEPT !.pc = "parse12HourTime", !.op = "codec",
                                    !.row = <<IsoDate(clock),
                                              formatTime12Hour(clock)>>]]
    /\ UNCHANGED <<store, configCache, clock, last>>

\* parse12HourTime is applied to the string formatTime12Hour gave; of the
\* Date it returns the model keeps the time of day
ParseTime(p) ==
    /\ proc[p].pc = "parse12HourTime"
    /\ proc' = [proc EXCEPT ![p] =
                   [@ EXCEPT !.pc = "done",
                             !.end = Instant(0, parse12HourTime(proc[p].row[2]))]]
    /\ UNCHANGED <<store, configCache, clock, last>>

----------------------------------------------------------------------------
(* The world around the engine, between calls *)

\* time passes: the clock shows a later one of its first T instants
Tick(T) ==
    /\ Quiescent
    /\ \E k \in 1..T :
          /\ DateNow(Schedule(k)) > DateNow(clock)
          /\ clock' = Schedule(k)
    /\ UNCHANGED <<store, configCache, proc, last>>

\* the user ticks the Invoiced checkbox of a period segment
MarkInvoiced(d) ==
    /\ Quiescent
    /\ \E name \in DOMAIN store[d] :
          /\ dateRegex(name)
          /\ store[d][name].a1 # "TRUE"
          /\ store' = [store EXCEPT ![d][name].a1 = "TRUE"]
          /\ last' = [last EXCEPT ![d].closed = @ \/ last[d].sheet = name]
    /\ UNCHANGED <<configCache, clock, proc>>

\* the user clears the Invoiced checkbox of a period segment
UnmarkInvoiced(d) ==
    /\ Quiescent
    /\ \E name \in DOMAIN store[d] :
          /\ dateRegex(name)
          /\ store[d][name].a1 = "TRUE"
          /\ store' = [store EXCEPT ![d][name].a1 = "FALSE"]
    /\ UNCHANGED <<configCache, clock, proc, last>>

\* the Config rows after the user has changed the Hourly Rate value
EditedKv == << <<"Hourly Rate", "150">>, <<"Timezone", "UTC">> >>

\* the user changes the Hourly Rate cell of the Config worksheet
EditConfig(d) ==
    /\ Quiescent
    /\ ConfigName \in DOMAIN store[d]
    /\ store[d][ConfigName].kv = DefaultKv
    /\ store' = [store EXCEPT ![d][ConfigName].kv = EditedKv]
    /\ UNCHANGED <<configCache, clock, proc, last>>

\* the user empties the cells of the Config worksheet
ClearConfig(d) ==
    /\ Quiescent
    /\ ConfigName \in DOMAIN store[d]
    /\ store[d][ConfigName].kv # <<>>
    /\ store' = [store EXCEPT ![d][ConfigName].kv = <<>>]
    /\ UNCHANGED <<configCache, clock, proc, last>>

\* the user deletes the End value of a data row of a period segment
ClearEnd(d) ==
    /\ Quiescent
    /\ \E name \in DOMAIN store[d] :
          /\ dateRegex(name)
          /\ \E i \in 1..Len(store[d][name].rows) :
                /\ store[d][name].rows[i][3] # None
                /\ store' = [store EXCEPT ![d][name].rows[i][3] = None]
    /\ UNCHANGED <<configCache, clock, proc, last>>

\* a worksheet of the user's own: its title is a date followed by one more
\* character, its A1 holds FALSE and its only data row has no End
NotesName == <<"2", "0", "2", "5", "-", "0", "1", "-", "3", "1", "b">>

NotesSheet ==
    [a1 |-> "FALSE", kv |-> <<>>,
     rows |-> << <<IsoDate(Instant(1, 0)), formatTime12Hour(Instant(1, 32400)),
                   None>> >>,
     laid |-> <<>>, seed |-> <<>>]

\* the user adds that worksheet to the document
AddWorksheet(d) ==
    /\ Quiescent
    /\ NotesName \notin DOMAIN store[d]
    /\ store' = [store EXCEPT ![d] = (NotesName :> NotesSheet) @@ @]
    /\ UNCHANGED <<configCache, clock, proc, last>>

\* the owner deletes the Config worksheet
DeleteConfig(d) ==
    /\ Quiescent
    /\ ConfigName \in DOMAIN store[d]
    /\ store' = [store EXCEPT ![d] =
                    [name \in DOMAIN @ \ {ConfigName} |-> @[name]]]
    /\ UNCHANGED <<configCache, clock, proc, last>>

\* time zone names the owner types: one no runtime knows, one five hours
\* behind UTC
OwnerZones == {"Mars/Phobos", "Etc/GMT+5"}

\* the owner changes the Timezone cell of the Config worksheet
SetTimezone(d) ==
    /\ Quiescent
    /\ ConfigName \in DOMAIN store[d]
    /\ store[d][ConfigName].kv = DefaultKv
    /\ \E zone \in OwnerZones :
          store' = [store EXCEPT ![d][ConfigName].kv =
                       << <<"Hourly Rate", "100">>, <<"Timezone", zone>> >>]
    /\ UNCHANGED <<configCache, clock, proc, last>>

----------------------------------------------------------------------------
(* Specifications *)

\* a new document holds one empty worksheet; the service starts with an
\* empty cache
Init ==
    /\ store = [d \in Docs |-> (Sheet1 :> BlankSheet)]
    /\ configCache = [d \in Docs |-> NoEntry]
    /\ clock = Schedule(1)
    /\ proc = [p \in Procs |-> IdleProc]
    /\ last = [d \in Docs |-> NoLast]

\* the end instant of the test 'stopTimer should return the correct
\* duration': 10:15:30 on day 1
TestEndTime == Instant(1, 36930)

\* the steps of the calls in slots P on documents D, the store answering
\* each call as F allows (TRUE: it succeeds when it can, FALSE: it fails),
\* with at most R data rows per document and T instants of the clock;
\* a stop request carries one of the end instants E (NoTime: left out)
Step(P, D, F, R, T, E) ==
    \/ \E p \in P, d \in D : startTimer(p, d, R)
    \/ \E p \in P, d \in D, endTime \in E : stopTimer(p, d, endTime)
    \/ \E p \in P, d \in D : getConfig(p, d)
    \/ \E p \in P, ok \in F : getConfig_getWorksheetData(p, ok)
    \/ \E p \in P, ok \in F : createConfigSheet_createWorksheet(p, ok)
    \/ \E p \in P, ok \in F : createConfigSheet_batchUpdate(p, ok)
    \/ \E p \in P, ok \in F : getCurrentSheet_getWorksheets(p, ok)
    \/ \E p \in P, ok \in F : getCurrentSheet_getWorksheetData(p, ok)
    \/ \E p \in P, ok \in F : ensureConfigSheetExists_getWorksheets(p, ok)
    \/ \E p \in P, ok \in F : createNewTimeSheet_createWorksheet(p, ok)
    \/ \E p \in P, ok \in F : createNewTimeSheet_batchUpdate(p, ok)
    \/ \E p \in P, ok \in F : isTimerRunning_getWorksheetData(p, ok)
    \/ \E p \in P, ok \in F : startTimer_appendRow(p, ok)
    \/ \E p \in P, ok \in F : findActiveTimerRow_getWorksheetData(p, ok)
    \/ \E p \in P, ok \in F : stopTimer_updateCell(p, ok)
    \/ \E p \in P : Return(p)
    \/ Tick(T)
    \/ \E d \in D : MarkInvoiced(d)

\* calls one after the other on one document, over a store that answers
Next == Step({1}, {"d1"}, {TRUE}, MaxRows, MaxTick, {NoTime, TestEndTime})

Spec == Init /\ [][Next]_vars

\* the same, and the user may clear Invoiced checkboxes as well as tick them
NextEdit ==
    \/ Step({1}, {"d1"}, {TRUE}, MaxRows, MaxTick, {NoTime})
    \/ \E d \in {"d1"} : UnmarkInvoiced(d)

SpecEdit == Init /\ [][NextEdit]_vars

\* two calls at a time on one document, over a store that answers
NextConc == Step({1, 2}, {"d1"}, {TRUE}, MaxRowsConc, MaxTickConc, {NoTime})

SpecConc == Init /\ [][NextConc]_vars

\* calls one after the other over a store whose calls may fail
NextFail == Step({1}, {"d1"}, BOOLEAN, MaxRowsFail, MaxTickFail, {NoTime})

SpecFail == Init /\ [][NextFail]_vars

\* calls one after the other on a document its user edits between calls
NextUser ==
    \/ Step({1}, {"d1"}, {TRUE}, MaxRowsUser, MaxTickUser, {NoTime})
    \/ \E d \in {"d1"} : EditConfig(d)
    \/ \E d \in {"d1"} : ClearConfig(d)
    \/ \E d \in {"d1"} : ClearEnd(d)
    \/ \E d \in {"d1"} : AddWorksheet(d)

SpecUser == Init /\ [][NextUser]_vars

\* calls one after the other on a document whose owner deletes the Config
\* worksheet or changes its time zone between calls
NextOwner ==
    \/ Step({1}, {"d1"}, {TRUE}, MaxRowsOwner, MaxTickOwner, {NoTime})
    \/ \E d \in {"d1"} : DeleteConfig(d)
    \/ \E d \in {"d1"} : SetTimezone(d)

SpecOwner == Init /\ [][NextOwner]_vars

\* calls one after the other: every operation on one document, whose user
\* may change its Hourly Rate, and getConfig on a second document
NextDocs ==
    \/ Step({1}, {"d1"}, {TRUE}, MaxRowsDocs, MaxTickDocs, {NoTime})
    \/ \E p \in {1}, d \in {"d2"} : getConfig(p, d)
    \/ \E d \in {"d1"} : EditConfig(d)

SpecDocs == Init /\ [][NextDocs]_vars

\* the time codec at any second of a day
InitCodec ==
    /\ store = [d \in Docs |-> (Sheet1 :> BlankSheet)]
    /\ configCache = [d \in Docs |-> NoEntry]
    /\ clock \in {Instant(1, t) : t \in SecondsOfDay}
    /\ proc = [p \in Procs |-> IdleProc]
    /\ last = [d \in Docs |-> NoLast]

NextCodec ==
    \/ \E p \in {1} : FormatTime(p)
    \/ \E p \in {1} : ParseTime(p)
    \/ \E p \in {1} : Return(p)

SpecCodec == InitCodec /\ [][NextCodec]_vars

----------------------------------------------------------------------------
(* Properties *)

\* the calls that have returned or thrown and not yet been collected
Done(op) == {p \in Procs : proc[p].pc = "done" /\ proc[p].op = op}

\* the period segments of a document: its date-named worksheets
Segments(ws) == {name \in DOMAIN ws : dateRegex(name)}

\* the data rows of every worksheet of a document
RowsOf(ws) == [name \in DOMAIN ws |-> ws[name].rows]

\* a data row with a Start value and no End value
IsOpen(row) == row[2] # None /\ row[3] = None

OpenRows(rows) == {i \in 1..Len(rows) : IsOpen(rows[i])}

\* d seconds as HH:MM:SS, every part of two digits at least
TwoDigits(n) == IF n < 10 THEN <<"0", Digits[n + 1]>> ELSE NatStr(n)

HMS(d) == TwoDigits(d \div 3600) \o <<":">> \o TwoDigits((d \div 60) % 60)
          \o <<":">> \o TwoDigits(d % 60)

\* the seconds of the day the clock shows
ClockTods == {ClockTimes[i] : i \in 1..Len(ClockTimes)}

\* the Start value of the row a finished stopTimer call found open: the
\* last data row its segment had when the call began
StartOf(pr) ==
    LET rows == pr.pre.ws[pr.result.sheet].rows
    IN  rows[Len(rows)][2]

\* C1: a startTimer that follows a successful startTimer on the document,
\* with no successful stopTimer and no closing of that segment in between,
\* fails with TimerAlreadyRunning and leaves the rows of every worksheet
\* as they were.
C1_SecondStartFails ==
    \A p \in Done("start") :
        (proc[p].pre.last.op = "start" /\ ~proc[p].pre.last.closed)
        => /\ proc[p].result.status = "TimerAlreadyRunning"
           /\ RowsOf(store[proc[p].doc]) = RowsOf(proc[p].pre.ws)

C1_Witness ==
    \E p \in Done("start") :
        /\ proc[p].pre.last.op = "start"
        /\ ~proc[p].pre.last.closed
        /\ proc[p].result.status = "TimerAlreadyRunning"
        /\ IsoDate(clock) # proc[p].currentSheet

\* C2: a stopTimer on a document on which no startTimer has succeeded
\* fails with NoActiveTimer, and every period segment is as it was
\* before the call.
C2_StopWithoutStart ==
    \A p \in Done("stop") :
        ~proc[p].pre.last.started
        => /\ proc[p].result.status = "NoActiveTimer"
           /\ Segments(store[proc[p].doc]) = Segments(proc[p].pre.ws)
           /\ \A name \in Segments(proc[p].pre.ws) :
                 store[proc[p].doc][name] = proc[p].pre.ws[name]

C2_Witness ==
    \E p \in Done("stop") :
        /\ ~proc[p].pre.last.started
        /\ proc[p].result.status = "NoActiveTimer"
        /\ ~proc[p].pre.cache.has

C4_OneOpenRowLast ==
    \A d \in Docs : \A name \in Segments(store[d]) :
        LET rows == store[d][name].rows
        IN  /\ Cardinality(OpenRows(rows)) <= 1
            /\ \A i \in OpenRows(rows) : i = Len(rows)

C4_Witness ==
    \E d \in Docs : \E name \in Segments(store[d]) :
        LET rows == store[d][name].rows
        IN  /\ Len(rows) >= 2
            /\ OpenRows(rows) = {Len(rows)}

\* the current segment of a document as the contract words it: the greatest
\* date-named worksheet whose A1 is not 'TRUE', None when there is none
Candidates(ws) == {name \in Segments(ws) : ws[name].a1 # "TRUE"}

CurrentSpec(ws) ==
    IF Candidates(ws) = {} THEN None
    ELSE CHOOSE n \in Candidates(ws) :
            \A m \in Candidates(ws) : m = n \/ localeLess(m, n)

\* the contract's Running: a current segment whose last data row is open
Running(ws) ==
    /\ CurrentSpec(ws) # None
    /\ LET rows == ws[CurrentSpec(ws)].rows
       IN  Len(rows) > 0 /\ IsOpen(rows[Len(rows)])

\* C5: startTimer and stopTimer on one document are atomic: two
\* startTimer calls that both began on the same contents of the document
\* do not both succeed, and no period segment ever has two open rows.
C5_StartsAtomic ==
    /\ \A d \in Docs : \A name \in Segments(store[d]) :
          Cardinality(OpenRows(store[d][name].rows)) <= 1
    /\ \A p, q \in Done("start") :
          (p # q /\ proc[p].doc = proc[q].doc /\ proc[p].pre.ws = proc[q].pre.ws)
          => ~(proc[p].result.status = "ok" /\ proc[q].result.status = "ok")

\* C6: the engine takes the timer of a document for running exactly when
\* the document has a current segment whose last data row has a Start and
\* no End: stopTimer succeeds exactly then and fails with NoActiveTimer
\* otherwise, startTimer fails with TimerAlreadyRunning exactly then.
C6_DerivedState ==
    /\ \A p \in Done("stop") :
          /\ proc[p].result.status \in {"ok", "NoActiveTimer"}
          /\ proc[p].result.status = "ok" <=> Running(proc[p].pre.ws)
    /\ \A p \in Done("start") :
          proc[p].result.status = "TimerAlreadyRunning" <=> Running(proc[p].pre.ws)

C6_Witness ==
    \E p \in Done("stop") :
        LET ws == proc[p].pre.ws
        IN  /\ proc[p].result.status = "NoActiveTimer"
            /\ CurrentSpec(ws) # None
            /\ Len(ws[CurrentSpec(ws)].rows) > 0
            /\ \E name \in Segments(ws) :
                  /\ localeLess(CurrentSpec(ws), name)
                  /\ OpenRows(ws[name].rows) # {}

\* C7: getCurrentSheet returns the greatest date-named worksheet whose A1
\* is not 'TRUE', and returns null exactly when the document has no
\* date-named worksheet or all of them have 'TRUE' in A1.
C7_CurrentSheet ==
    \A p \in Procs :
        proc[p].resolved.set
        => /\ proc[p].resolved.name = CurrentSpec(proc[p].pre.ws)
           /\ proc[p].resolved.name = None
                <=> \A name \in Segments(proc[p].pre.ws) :
                       proc[p].pre.ws[name].a1 = "TRUE"

C7_Witness ==
    \E p \in Procs :
        /\ proc[p].resolved.set
        /\ Cardinality(Candidates(proc[p].pre.ws)) >= 2
        /\ proc[p].resolved.name # None
        /\ \E name \in Candidates(proc[p].pre.ws) :
              /\ localeLess(name, proc[p].resolved.name)
              /\ proc[p].pre.ws[name].a1 = "FALSE"

\* C8: a startTimer called after the segment S of the last successful call
\* was flagged closed succeeds, creates a segment with a name greater than
\* S and appends its row there.
C8_NewSegmentAfterClose ==
    \A p \in Done("start") :
        (proc[p].pre.last.op # "none" /\ proc[p].pre.last.closed)
        => /\ proc[p].result.status = "ok"
           /\ proc[p].created # None
           /\ proc[p].created \notin DOMAIN proc[p].pre.ws
           /\ localeLess(proc[p].pre.last.sheet, proc[p].created)
           /\ proc[p].result.sheet = proc[p].created

\* C9: a startTimer that follows a successful stopTimer on segment S, S
\* not flagged closed in between, appends its row to S, returns the name
\* of S and creates no worksheet.
C9_ReuseAfterStop ==
    \A p \in Done("start") :
        (proc[p].pre.last.op = "stop" /\ ~proc[p].pre.last.closed)
        => LET S  == proc[p].pre.last.sheet
               ws == store[proc[p].doc]
           IN  /\ proc[p].result.status = "ok"
               /\ proc[p].result.sheet = S
               /\ proc[p].created = None
               /\ Segments(ws) = Segments(proc[p].pre.ws)
               /\ ws[S].rows = Append(proc[p].pre.ws[S].rows,
                                      <<proc[p].result.date,
                                        proc[p].result.start, None>>)
               /\ \A name \in Segments(ws) \ {S} : ws[name] = proc[p].pre.ws[name]

C9_Witness ==
    \E p \in Done("start") :
        /\ proc[p].pre.last.op = "stop"
        /\ ~proc[p].pre.last.closed
        /\ proc[p].result.status = "ok"
        /\ proc[p].result.sheet = proc[p].pre.last.sheet
        /\ proc[p].result.date # proc[p].result.sheet

\* C10: a getConfig call made while the document's cache entry is younger
\* than the TTL returns the configuration of that entry and makes no call
\* to the store: worksheets and cache entry stay as they were.
C10_CachedConfig ==
    \A p \in Done("getConfig") :
        (/\ proc[p].pre.cache.has
         /\ DateNow(clock) - proc[p].pre.cache.timestamp < 300 * 1000)
        => /\ proc[p].result.status = "ok"
           /\ proc[p].result.config = proc[p].pre.cache.config
           /\ proc[p].trace = <<>>
           /\ store[proc[p].doc] = proc[p].pre.ws
           /\ configCache[proc[p].doc] = proc[p].pre.cache

C10_Witness ==
    \E p \in Done("getConfig") :
        /\ proc[p].pre.cache.has
        /\ DateNow(clock) - proc[p].pre.cache.timestamp = 299 * 1000
        /\ proc[p].result.status = "ok"
        /\ proc[p].trace = <<>>

\* the snapshot the contract reads from Config rows: each key with the
\* value of the last row that names it
SnapshotOf(kv) ==
    [k \in {kv[i][1] : i \in 1..Len(kv)} |->
        kv[CHOOSE i \in 1..Len(kv) :
              /\ kv[i][1] = k
              /\ \A j \in 1..Len(kv) : kv[j][1] = k => j <= i][2]]

\* the document had no cache entry younger than 300 s when call pr began
Missed(pr) ==
    ~(/\ pr.pre.cache.has
      /\ DateNow(clock) - pr.pre.cache.timestamp < 300 * 1000)

\* C11: a getConfig call made when the document has no cache entry, or one
\* of age 300 s or more, first reads the Config worksheet; when that read
\* yields rows the call returns the snapshot of those rows, and the cache
\* entry becomes that snapshot with the time of the call.
C11_ExpiredConfigReread ==
    \A p \in Done("getConfig") :
        Missed(proc[p])
        => LET d  == proc[p].doc
               tr == proc[p].trace
               ws == proc[p].pre.ws
           IN  /\ Len(tr) >= 1
               /\ tr[1].call = "getWorksheetData"
               /\ tr[1].sheet = ConfigName
               /\ (tr[1].ok /\ ws[ConfigName].kv # <<>>)
                  => /\ proc[p].result.status = "ok"
                     /\ proc[p].result.config = SnapshotOf(ws[ConfigName].kv)
                     /\ configCache[d] =
                           [has |-> TRUE,
                            config |-> SnapshotOf(ws[ConfigName].kv),
                            timestamp |-> DateNow(clock)]

C11_Witness ==
    \E p \in Done("getConfig") :
        /\ proc[p].pre.cache.has
        /\ DateNow(clock) - proc[p].pre.cache.timestamp = 300 * 1000
        /\ proc[p].result.status = "ok"
        /\ proc[p].result.config # proc[p].pre.cache.config
        /\ configCache[proc[p].doc].timestamp = DateNow(clock)

\* C12: when two getConfig calls on one document both begin without a
\* cache entry and without a Config worksheet, both return the default
\* configuration, whatever the order of their store calls.
C12_ProvisioningRace ==
    \A p, q \in Done("getConfig") :
        (/\ p # q
         /\ proc[p].doc = proc[q].doc
         /\ \A r \in {p, q} : /\ ~proc[r].pre.cache.has
                              /\ ConfigName \notin DOMAIN proc[r].pre.ws)
        => \A r \in {p, q} : /\ proc[r].result.status = "ok"
                             /\ proc[r].result.config = defaultConfig

\* getConfig call pr ended with the defaults: returned, cached with the
\* time of the call, and written to the Config worksheet
GaveDefaults(pr) ==
    /\ pr.result.status = "ok"
    /\ pr.result.config = [k \in {"Hourly Rate", "Timezone"} |->
                              IF k = "Hourly Rate" THEN "100" ELSE "UTC"]
    /\ configCache[pr.doc] = [has |-> TRUE, config |-> pr.result.config,
                              timestamp |-> DateNow(clock)]
    /\ ConfigName \in DOMAIN store[pr.doc]
    /\ store[pr.doc][ConfigName].kv =
          << <<"Hourly Rate", "100">>, <<"Timezone", "UTC">> >>

\* C13: a getConfig call that misses the cache and whose read of Config
\* fails, because the worksheet does not exist or because the store call
\* fails, creates Config with Hourly Rate = 100 and Timezone = UTC, caches
\* those defaults and returns them (no store call other than the read
\* failing when the worksheet did not exist).
C13_DefaultsOnReadFailure ==
    \A p \in Done("getConfig") :
        LET tr == proc[p].trace
        IN  (Missed(proc[p]) /\ Len(tr) >= 1 /\ ~tr[1].ok)
            => IF ConfigName \in DOMAIN proc[p].pre.ws
               THEN GaveDefaults(proc[p])
               ELSE (\A i \in 2..Len(tr) : tr[i].ok) => GaveDefaults(proc[p])

C15_Transitions ==
    [][\A d \in Docs :
          (proc' # proc /\ Running(store'[d]) # Running(store[d]))
          => \E p \in Procs :
                /\ proc[p].pc # "done"
                /\ proc'[p].pc = "done"
                /\ proc'[p].doc = d
                /\ proc'[p].result.status = "ok"
                /\ proc'[p].op = IF Running(store'[d]) THEN "start" ELSE "stop"]_vars

C15_Witness ==
    \E p \in Done("start") :
        /\ proc[p].result.status = "StoreError"
        /\ proc[p].created # None
        /\ proc[p].created \in DOMAIN store[proc[p].doc]
        /\ ~Running(proc[p].pre.ws)
        /\ ~Running(store[proc[p].doc])

\* C16: no step of an engine call removes a period segment, shortens the
\* data rows of a segment, or changes the Date or the Start value of a
\* data row that exists.
C16_AppendOnly ==
    [][proc' # proc
       => \A d \in Docs :
             /\ Segments(store[d]) \subseteq Segments(store'[d])
             /\ \A name \in Segments(store[d]) :
                   LET old == store[d][name].rows
                       new == store'[d][name].rows
                   IN  /\ Len(new) >= Len(old)
                       /\ \A i \in 1..Len(old) : /\ new[i][1] = old[i][1]
                                                 /\ new[i][2] = old[i][2]]_vars

C16_Witness ==
    \E d \in Docs :
        /\ Cardinality(Segments(store[d])) >= 2
        /\ \E name \in Segments(store[d]) :
              /\ Len(store[d][name].rows) >= 1
              /\ store[d][name].rows[1][3] # None
        /\ \E p \in Done("start") : proc[p].result.status = "ok"

\* the updateCell calls a call has made so far
UpdateCells(pr) ==
    {i \in 1..Len(pr.trace) : pr.trace[i].call = "updateCell"}

\* C17: a step of a stopTimer call, successful or not, leaves the set of
\* period segments and the number of rows of each as they are; the one
\* thing it may change in a period segment is the End of the last data row
\* of the segment getCurrentSheet returned to it, addressed as sheet row
\* (number of data rows + 5), and a call issues updateCell at most once.
C17_StopWritesOneEnd ==
    [][\A p \in Procs :
          (proc'[p] # proc[p] /\ "stop" \in {proc[p].op, proc'[p].op})
          => /\ Cardinality(UpdateCells(proc'[p])) <= 1
             /\ \A d \in Docs :
                   /\ Segments(store'[d]) = Segments(store[d])
                   /\ \A name \in Segments(store[d]) :
                         LET old == store[d][name].rows
                             new == store'[d][name].rows
                         IN  \/ store'[d][name] = store[d][name]
                             \/ /\ d = proc[p].doc
                                /\ proc[p].resolved.set
                                /\ name = proc[p].resolved.name
                                /\ store'[d][name] =
                                      [store[d][name] EXCEPT !.rows = new]
                                /\ Len(new) = Len(old)
                                /\ proc[p].activeTimer[2] = Len(old) + 5
                                /\ \A i \in 1..Len(old) :
                                      /\ new[i][1] = old[i][1]
                                      /\ new[i][2] = old[i][2]
                                      /\ i < Len(old) => new[i] = old[i]]_vars

C17_Witness ==
    \E p \in Done("stop") :
        LET old == proc[p].pre.ws[proc[p].result.sheet].rows
            new == store[proc[p].doc][proc[p].result.sheet].rows
        IN  /\ proc[p].result.status = "ok"
            /\ Len(old) = 2
            /\ old[2][3] = None
            /\ new[2][3] # None
            /\ new[1] = old[1]
            /\ Cardinality(UpdateCells(proc[p])) = 1

\* the current segment of ws exists and its last data row, if any, is
\* not open
LastRowNotOpen(ws) == CurrentSpec(ws) # None /\ ~Running(ws)

\* open rows of the current segment of ws above its last data row
EarlierOpen(ws) ==
    LET rows == ws[CurrentSpec(ws)].rows
    IN  {i \in OpenRows(rows) : i < Len(rows)}

\* call pr could obtain a configuration: a fresh cache entry, a Config
\* worksheet with rows, or no Config worksheet (defaults are provisioned)
ConfigAvailable(pr) ==
    \/ ~Missed(pr)
    \/ ConfigName \notin DOMAIN pr.pre.ws
    \/ pr.pre.ws[ConfigName].kv # <<>>

\* C18: when the last data row of the current segment is not open,
\* stopTimer fails with NoActiveTimer and startTimer succeeds and appends
\* below it, whatever rows above have a Start and no End; those rows, and
\* all other rows present before the call, are as they were.
C18_EarlierOpenInvisible ==
    \A p \in Procs :
        LET pr  == proc[p]
            ws  == pr.pre.ws
            cur == CurrentSpec(ws)
            new == store[pr.doc][cur].rows
        IN  (/\ pr.pc = "done"
             /\ pr.op \in {"start", "stop"}
             /\ ConfigAvailable(pr)
             /\ LastRowNotOpen(ws))
            => /\ \A i \in 1..Len(ws[cur].rows) : new[i] = ws[cur].rows[i]
               /\ pr.op = "stop"
                    => /\ pr.result.status = "NoActiveTimer"
                       /\ new = ws[cur].rows
               /\ pr.op = "start"
                    => /\ pr.result.status = "ok"
                       /\ pr.result.sheet = cur
                       /\ Len(new) = Len(ws[cur].rows) + 1
                       /\ IsOpen(new[Len(new)])

C18_Witness ==
    \E p \in Done("start") :
        /\ LastRowNotOpen(proc[p].pre.ws)
        /\ EarlierOpen(proc[p].pre.ws) # {}
        /\ proc[p].result.status = "ok"
        /\ Len(store[proc[p].doc][proc[p].result.sheet].rows) = 3

\* exactly four digits, hyphen, two digits, hyphen, two digits
DatePattern(name) ==
    /\ Len(name) = 10
    /\ name[5] = "-"
    /\ name[8] = "-"
    /\ \A i \in {1, 2, 3, 4, 6, 7, 9, 10} :
          name[i] \in {"0", "1", "2", "3", "4", "5", "6", "7", "8", "9"}

\* C19: a worksheet whose title is not exactly four digits, hyphen, two
\* digits, hyphen, two digits is never what getCurrentSheet returns, and
\* its rows are the same after every startTimer and stopTimer as before,
\* whatever its A1 and its rows hold.
C19_OnlyDateNames ==
    \A p \in Procs :
        /\ (proc[p].resolved.set /\ proc[p].resolved.name # None)
           => DatePattern(proc[p].resolved.name)
        /\ (proc[p].pc = "done" /\ proc[p].op \in {"start", "stop"})
           => /\ proc[p].result.status = "ok"
                 => DatePattern(proc[p].result.sheet)
              /\ \A name \in DOMAIN proc[p].pre.ws :
                    ~DatePattern(name)
                    => /\ name \in DOMAIN store[proc[p].doc]
                       /\ store[proc[p].doc][name].rows = proc[p].pre.ws[name].rows

C19_Witness ==
    \E p \in Done("stop") :
        /\ NotesName \in DOMAIN proc[p].pre.ws
        /\ proc[p].pre.ws[NotesName].a1 # "TRUE"
        /\ OpenRows(proc[p].pre.ws[NotesName].rows) # {}
        /\ proc[p].resolved.set
        /\ proc[p].resolved.name # NotesName
        /\ proc[p].result.status = "NoActiveTimer"

\* C20: a store call that fails during startTimer or stopTimer is the
\* last store call of that operation, and the operation fails to its
\* caller.
C20_FailuresPropagate ==
    \A p \in Procs :
        proc[p].op \in {"start", "stop"}
        => \A i \in 1..Len(proc[p].trace) :
              ~proc[p].trace[i].ok
              => /\ i = Len(proc[p].trace)
                 /\ proc[p].pc = "done"
                 /\ proc[p].result.status # "ok"

\* the store calls of kind call that call pr has made on worksheet sheet
CallsOn(pr, call, sheet) ==
    {i \in 1..Len(pr.trace) :
        pr.trace[i].call = call /\ pr.trace[i].sheet = sheet}

\* the rejected createWorksheet calls of pr for a worksheet other than Config
RejectedCreates(pr) ==
    {i \in 1..Len(pr.trace) :
        /\ pr.trace[i].call = "createWorksheet"
        /\ pr.trace[i].sheet # ConfigName
        /\ ~pr.trace[i].ok}

\* C21: when the store rejects createWorksheet for the new period segment
\* during startTimer, that is the last store call of the operation: the
\* call fails, createWorksheet was issued once for that title, no layout
\* batch and no appendRow were issued, and all rows are as before.
C21_CreationFailureIsFinal ==
    \A p \in Procs :
        \A i \in RejectedCreates(proc[p]) :
            LET pr    == proc[p]
                title == pr.trace[i].sheet
            IN  /\ pr.op = "start"
                /\ pr.pc = "done"
                /\ pr.result.status = "StoreError"
                /\ i = Len(pr.trace)
                /\ CallsOn(pr, "createWorksheet", title) = {i}
                /\ CallsOn(pr, "batchUpdate", title) = {}
                /\ \A j \in 1..Len(pr.trace) : pr.trace[j].call # "appendRow"
                /\ \A name \in DOMAIN pr.pre.ws :
                      /\ name \in DOMAIN store[pr.doc]
                      /\ store[pr.doc][name].rows = pr.pre.ws[name].rows
                /\ title \in DOMAIN store[pr.doc] => title \in DOMAIN pr.pre.ws

C21_Witness ==
    \E p \in Done("start") :
        /\ RejectedCreates(proc[p]) # {}
        /\ proc[p].result.status = "StoreError"
        /\ CallsOn(proc[p], "createWorksheet", ConfigName) # {}
        /\ \A name \in DOMAIN store[proc[p].doc] : ~DatePattern(name)

\* the successful createWorksheet calls of pr for a period segment
Creates(pr) ==
    {i \in 1..Len(pr.trace) :
        /\ pr.trace[i].call = "createWorksheet"
        /\ pr.trace[i].sheet # ConfigName
        /\ pr.trace[i].ok}

\* C22: around the creation of a period segment the store calls of
\* createNewTimeSheet come in this order: a listing of the worksheets,
\* the calls that create Config when it is missing, the createWorksheet of
\* the segment, then one layout batch for it and no second one; from the
\* creation on, Config and the new segment both exist.
C22_CreationOrder ==
    \A p \in Procs :
        \A k \in Creates(proc[p]) :
            LET pr    == proc[p]
                title == pr.trace[k].sheet
                n     == Len(pr.trace)
            IN  /\ Creates(pr) = {k}
                /\ ConfigName \in DOMAIN store[pr.doc]
                /\ title \in DOMAIN store[pr.doc]
                /\ \A j \in 1..n : pr.trace[j].sheet = ConfigName => j < k
                /\ \E j \in 1..(k - 1) :
                      /\ pr.trace[j].call = "getWorksheets"
                      /\ \A i \in (j + 1)..(k - 1) :
                            /\ pr.trace[i].sheet = ConfigName
                            /\ pr.trace[i].call \in {"createWorksheet", "batchUpdate"}
                /\ CallsOn(pr, "batchUpdate", title) \subseteq {k + 1}
                /\ n > k => /\ pr.trace[k + 1].call = "batchUpdate"
                            /\ pr.trace[k + 1].sheet = title
                            /\ ~pr.trace[k + 1].ok => n = k + 1
                /\ pr.pc = "done" => n > k
                /\ pr.pc = "done" /\ pr.result.status = "ok" => pr.trace[k + 1].ok

C22_Witness ==
    \E p \in Done("start") :
        /\ proc[p].result.status = "ok"
        /\ Creates(proc[p]) # {}
        /\ ConfigName \notin DOMAIN proc[p].pre.ws
        /\ CallsOn(proc[p], "createWorksheet", ConfigName) # {}
        /\ CallsOn(proc[p], "getWorksheetData", ConfigName) = {}

ZoneOf(d) ==
    IF "Timezone" \in DOMAIN configCache[d].config
    THEN configCache[d].config["Timezone"] ELSE "UTC"

\* a time zone name the runtime rejects
InvalidZone(zone) == zone \notin DOMAIN TzOffset \cup {"UTC", ""}

\* C24: with a configured time zone name the runtime rejects, startTimer
\* and stopTimer act on the instant itself, as with UTC: a created segment
\* is named after the UTC date, the row and the result of startTimer hold
\* the UTC date and time, stopTimer writes and returns the UTC time, and a
\* call fails only as a named outcome or on a title that already existed.
C24_InvalidZoneFallsBack ==
    \A p \in Done("start") \cup Done("stop") :
        LET pr   == proc[p]
            ws   == store[pr.doc]
            date == IsoDate(clock)
            time == formatTime12Hour(clock)
        IN  InvalidZone(ZoneOf(pr.doc)) =>
              /\ pr.created # None => pr.created = date
              /\ pr.result.status \in {"ok", "TimerAlreadyRunning",
                                       "NoActiveTimer", "StoreError"}
              /\ pr.result.status = "StoreError" =>
                    \E i \in RejectedCreates(pr) :
                        /\ pr.trace[i].sheet = date
                        /\ date \in DOMAIN pr.pre.ws
              /\ pr.op = "start" /\ pr.result.status = "ok" =>
                    /\ pr.result.date = date
                    /\ pr.result.start = time
                    /\ ws[pr.result.sheet].rows[Len(ws[pr.result.sheet].rows)]
                          = <<date, time, None>>
              /\ pr.op = "stop" /\ pr.result.status = "ok" =>
                    /\ pr.result.end = clock
                    /\ ws[pr.result.sheet].rows[Len(ws[pr.result.sheet].rows)][3]
                          = time

C24_Witness ==
    \E p \in Done("start") :
        /\ InvalidZone(ZoneOf(proc[p].doc))
        /\ proc[p].result.status = "ok"
        /\ proc[p].created # None

\* C25: for every hour 0..23, minute 0..59 and second 0..59, parsing the
\* string that formatting gave for that time of day yields the same hour,
\* minute and second; a string for hour 12 with AM yields hour 0 and one
\* with PM yields hour 12.
C25_ParseInvertsFormat ==
    \A p \in Done("codec") :
        LET t      == clock.tod
            parsed == proc[p].end.tod
            text   == proc[p].row[2]
        IN  /\ parsed \div 3600 = t \div 3600
            /\ (parsed \div 60) % 60 = (t \div 60) % 60
            /\ parsed % 60 = t % 60
            /\ SubSeq(text, 1, 2) = <<"1", "2">> =>
                  parsed \div 3600 = (IF text[Len(text) - 1] = "A" THEN 0 ELSE 12)

C25_Witness ==
    \E p \in Done("codec") :
        /\ clock.tod = 59
        /\ proc[p].row[2] = <<"1", "2", ":", "0", "0", ":", "5", "9", " ", "A", "M">>
        /\ proc[p].end.tod = 59

\* the configuration a call has received from getConfig in the next state
Received(p) ==
    IF proc'[p].pc = "done" THEN proc'[p].result.config ELSE proc'[p].config

\* C26: the cache entry of a document is never removed; it changes only on
\* a step of a call for that document that is inside getConfig and found
\* no entry younger than the TTL when it began, and it then holds the
\* configuration that call receives and the time of the step; a getConfig
\* call returns the configuration of the entry of its own document.
C26_CacheFrame ==
    [][\A d \in Docs :
          /\ configCache[d].has => configCache'[d].has
          /\ configCache'[d] # configCache[d] =>
                \E p \in Procs :
                    /\ proc[p].doc = d
                    /\ proc'[p] # proc[p]
                    /\ \A i \in 1..Len(proc'[p].trace) :
                          proc'[p].trace[i].sheet = ConfigName
                    /\ ~(/\ proc[p].pre.cache.has
                         /\ DateNow(clock) - proc[p].pre.cache.timestamp < 300 * 1000)
                    /\ configCache'[d] = [has |-> TRUE, config |-> Received(p),
                                          timestamp |-> DateNow(clock)]
          /\ \A p \in Procs :
                /\ proc[p].pc # "done" /\ proc'[p].pc = "done"
                /\ proc'[p].op = "getConfig" /\ proc'[p].doc = d
                /\ proc'[p].result.status = "ok"
                => /\ configCache'[d].has
                   /\ proc'[p].result.config = configCache'[d].config
      ]_vars

C26_Witness ==
    \E p \in Done("getConfig") :
        /\ proc[p].doc = "d1"
        /\ proc[p].pre.cache.has
        /\ configCache["d1"].timestamp > proc[p].pre.cache.timestamp
        /\ configCache["d2"].has
        /\ configCache["d2"].config # configCache["d1"].config

\* the structural writes of one layout batch, in the order of the requests
LayoutWrites ==
    <<"dataValidation", "totals", "headers", "pixelSize", "DATE", "TIME",
      "[h]:mm:ss", "CURRENCY", "formulas">>

\* C27: the step on which the layout batch of createNewTimeSheet is applied
\* changes one worksheet only, the segment that call has just created: it
\* receives the nine structural writes once, its A1 value and data rows
\* stay as they are, and every other worksheet of the document (an earlier
\* segment, Config, any other) and every other document stay as they are.
C27_LayoutOnlyOwnSegment ==
    [][\A p \in Procs :
          LET pr == proc'[p]
              n  == Len(pr.trace)
          IN  /\ n = Len(proc[p].trace) + 1
              /\ pr.trace[n].call = "batchUpdate"
              /\ pr.trace[n].sheet # ConfigName
              /\ pr.trace[n].ok
              => LET d     == pr.doc
                     title == pr.trace[n].sheet
                 IN  /\ pr.trace[n - 1] = StoreCall("createWorksheet", title, TRUE)
                     /\ DOMAIN store'[d] = DOMAIN store[d]
                     /\ \A name \in DOMAIN store[d] \ {title} :
                           store'[d][name] = store[d][name]
                     /\ \A e \in Docs \ {d} : store'[e] = store[e]
                     /\ store'[d][title] =
                           [store[d][title] EXCEPT
                               !.laid = @ \o LayoutWrites,
                               !.seed = store'[d][title].seed]
                     /\ store'[d][title].laid = LayoutWrites
      ]_vars

C27_Witness ==
    \E p \in Done("start") :
        LET pr == proc[p]
        IN  /\ pr.created # None
            /\ pr.result.status = "ok"
            /\ \E other \in DOMAIN pr.pre.ws :
                  /\ other \notin {ConfigName, Sheet1, pr.created}
                  /\ pr.pre.ws[other].laid = LayoutWrites
                  /\ pr.pre.ws[other].rows # <<>>
                  /\ store[pr.doc][other] = pr.pre.ws[other]
            /\ store[pr.doc][pr.created].laid = LayoutWrites

\* C28: within startTimer and stopTimer the store is consulted in the order
\* segment resolution, config read, last row, mutation: a read of the
\* Config range is never issued before the worksheets were listed.
C28_ResolutionBeforeConfig ==
    \A p \in Procs :
        proc[p].op \in {"start", "stop"} =>
            \A i \in 1..Len(proc[p].trace) :
                /\ proc[p].trace[i].call = "getWorksheetData"
                /\ proc[p].trace[i].sheet = ConfigName
                => \E j \in 1..(i - 1) : proc[p].trace[j].call = "getWorksheets"

\* the open entries of a document: segment and row of every open data row
OpenEntries(ws) ==
    UNION {{<<name, i>> : i \in OpenRows(ws[name].rows)} : name \in Segments(ws)}

\* C29: a document has at most one open entry across all its period
\* segments, and an open entry is the last data row of the current segment.
C29_OneOpenEntry ==
    \A d \in Docs :
        LET ws == store[d]
        IN  /\ Cardinality(OpenEntries(ws)) <= 1
            /\ \A e \in OpenEntries(ws) :
                  /\ e[1] = CurrentSpec(ws)
                  /\ e[2] = Len(ws[e[1]].rows)

\* the data rows worksheet name had when call pr began, none for a
\* worksheet created since
RowsBefore(pr, name) ==
    IF name \in DOMAIN pr.pre.ws THEN pr.pre.ws[name].rows ELSE <<>>

\* C30: a successful startTimer has issued one appendRow; the segment it
\* returns is the one getCurrentSheet resolved or, when that was null, the
\* one the call created; that segment holds the rows it had plus one last
\* row made of the returned date, the returned start and an empty End; no
\* other worksheet has gained, lost or changed a row.
C30_StartAppendsOneRow ==
    \A p \in Done("start") :
        LET pr    == proc[p]
            ws    == store[pr.doc]
            sheet == pr.result.sheet
        IN  pr.result.status = "ok" =>
              /\ Cardinality({i \in 1..Len(pr.trace) :
                                 pr.trace[i].call = "appendRow"}) = 1
              /\ pr.trace[Len(pr.trace)] = StoreCall("appendRow", sheet, TRUE)
              /\ pr.resolved.set
              /\ sheet = (IF pr.resolved.name # None THEN pr.resolved.name
                          ELSE pr.created)
              /\ sheet # None /\ sheet \in DOMAIN ws
              /\ ws[sheet].rows =
                    Append(RowsBefore(pr, sheet),
                           <<pr.result.date, pr.result.start, None>>)
              /\ pr.result.date # None /\ pr.result.start # None
              /\ \A name \in DOMAIN ws \ {sheet} :
                    ws[name].rows = RowsBefore(pr, name)

C30_Witness ==
    \E p \in Done("start") :
        /\ proc[p].result.status = "ok"
        /\ proc[p].resolved.name # None
        /\ proc[p].result.sheet = proc[p].resolved.name
        /\ Len(store[proc[p].doc][proc[p].result.sheet].rows) = 2
        /\ ZoneOf(proc[p].doc) = "Etc/GMT+5"

\* the createWorksheet calls of pr for a worksheet other than Config,
\* accepted or rejected
CreateCalls(pr) ==
    {i \in 1..Len(pr.trace) :
        /\ pr.trace[i].call = "createWorksheet"
        /\ pr.trace[i].sheet # ConfigName}

\* C31: a call asks the store for a new period segment only when it is a
\* startTimer to which getCurrentSheet has returned null, and then once; a
\* startTimer that got a current segment issues no such createWorksheet
\* and returns, with success or failure, on a document that has the period
\* segments it had; a successful startTimer without a current segment has
\* created exactly one.
C31_CreatesOnlyWhenNone ==
    \A p \in Procs :
        LET pr == proc[p]
        IN  /\ CreateCalls(pr) # {} =>
                  /\ pr.op = "start"
                  /\ pr.resolved.set /\ pr.resolved.name = None
                  /\ Cardinality(CreateCalls(pr)) = 1
            /\ pr.op = "start" /\ pr.resolved.set /\ pr.resolved.name # None =>
                  /\ CreateCalls(pr) = {}
                  /\ {n \in DOMAIN store[pr.doc] : DatePattern(n)}
                        = {n \in DOMAIN pr.pre.ws : DatePattern(n)}
            /\ /\ pr.op = "start" /\ pr.pc = "done" /\ pr.result.status = "ok"
               /\ pr.resolved.name = None
               => /\ Cardinality(Creates(pr)) = 1
                  /\ {n \in DOMAIN store[pr.doc] : DatePattern(n)}
                        = {n \in DOMAIN pr.pre.ws : DatePattern(n)}
                          \cup {pr.created}

C31_Witness ==
    \E p \in Done("start") :
        /\ proc[p].resolved.name # None
        /\ proc[p].result.status = "TimerAlreadyRunning"
        /\ CreateCalls(proc[p]) = {}

\* C32: with A1 flags changing only between calls, a step that adds a data
\* row to a worksheet is never taken on a worksheet whose A1 holds 'TRUE'.
C32_NoAppendToClosed ==
    [][\A d \in Docs :
          \A name \in DOMAIN store[d] \cap DOMAIN store'[d] :
              Len(store'[d][name].rows) > Len(store[d][name].rows)
              => /\ store[d][name].a1 # "TRUE"
                 /\ store'[d][name].a1 # "TRUE"
      ]_vars

C32_Witness ==
    \E p \in Done("start") :
        /\ proc[p].result.status = "ok"
        /\ \E closed \in DOMAIN proc[p].pre.ws :
              /\ DatePattern(closed)
              /\ proc[p].pre.ws[closed].a1 = "TRUE"
              /\ closed # proc[p].result.sheet
              /\ store[proc[p].doc][closed] = proc[p].pre.ws[closed]

\* C33: in sequential use, with the segment of the last successful call
\* not flagged closed since: a stopTimer after a successful startTimer
\* succeeds on that segment and writes its end time into the End of the
\* row the start appended, the last one, changing nothing else; a
\* stopTimer after a successful stopTimer fails with NoActiveTimer and
\* changes no row; a startTimer after a successful stopTimer succeeds.
C33_StartStopCycle ==
    \A p \in Done("start") \cup Done("stop") :
        LET pr     == proc[p]
            L      == pr.pre.last
            S      == L.sheet
            before == pr.pre.ws
            after  == store[pr.doc]
        IN  ~L.closed =>
              /\ pr.op = "stop" /\ L.op = "start" =>
                    LET n == Len(before[S].rows)
                    IN  /\ pr.result.status = "ok"
                        /\ pr.result.sheet = S
                        /\ n > 0 /\ IsOpen(before[S].rows[n])
                        /\ after[S].rows =
                              [before[S].rows EXCEPT ![n][3] =
                                  formatTime12Hour(pr.result.end)]
                        /\ ~IsOpen(after[S].rows[n])
                        /\ \A name \in DOMAIN after \ {S} :
                              after[name].rows = RowsBefore(pr, name)
              /\ pr.op = "stop" /\ L.op = "stop" =>
                    /\ pr.result.status = "NoActiveTimer"
                    /\ \A name \in DOMAIN after :
                          after[name].rows = RowsBefore(pr, name)
              /\ pr.op = "start" /\ L.op = "stop" =>
                    pr.result.status = "ok"

C33_Witness ==
    \E p \in Done("start") :
        LET pr == proc[p]
            S  == pr.pre.last.sheet
        IN  /\ pr.pre.last.op = "stop"
            /\ ~pr.pre.last.closed
            /\ pr.result.status = "ok"
            /\ Len(store[pr.doc][S].rows) = 2
            /\ ~IsOpen(store[pr.doc][S].rows[1])
            /\ IsOpen(store[pr.doc][S].rows[2])

\* a duration component as the result prints it: two digits at least, a
\* negative one with its sign
Component(n) == IF n < 0 THEN <<"-">> \o NatStr(-n) ELSE TwoDigits(n)

\* the duration string of a negative difference of -b seconds (b > 0), each
\* component rounded down on its own
NegativeDuration(b) ==
    Component(-((b + 3599) \div 3600)) \o <<":">>
    \o Component(-(((b % 3600) + 59) \div 60)) \o <<":">>
    \o Component(-(b % 60))

\* C34: when the open row's Start second of the day s is later than the End
\* second of the day e, stopTimer still succeeds and writes End into that
\* row; the duration it returns is built from e - s < 0 with hours, minutes
\* and seconds each rounded down on their own, the hours negative, and no
\* 24 hours are added.
C34_NegativeDuration ==
    \A p \in Done("stop") :
        LET pr == proc[p]
        IN  \A s \in ClockTods :
              /\ (/\ Running(pr.pre.ws)
                  /\ LET rows == pr.pre.ws[CurrentSpec(pr.pre.ws)].rows
                     IN  rows[Len(rows)][2] = formatTime12Hour(Instant(1, s))
                  /\ s > clock.tod)
                 => pr.result.status = "ok"
              /\ (/\ pr.result.status = "ok"
                  /\ StartOf(pr) = formatTime12Hour(Instant(1, s))
                  /\ s > pr.result.end.tod)
                 => LET rows == store[pr.doc][pr.result.sheet].rows
                    IN  /\ rows[Len(rows)][3] = formatTime12Hour(pr.result.end)
                        /\ pr.result.duration = NegativeDuration(s - pr.result.end.tod)
                        /\ pr.result.duration[1] = "-"
                        /\ pr.result.duration
                              # HMS(86400 + pr.result.end.tod - s)

C34_Witness ==
    \E p \in Done("stop") :
        /\ proc[p].result.status = "ok"
        /\ StartOf(proc[p]) = formatTime12Hour(Instant(1, 47730))
        /\ proc[p].result.end.tod = 32400
        /\ proc[p].result.duration =
              <<"-", "5", ":", "-", "1", "6", ":", "-", "3", "0">>

\* the data rows of a document that have an End value
ClosedRows(ws) ==
    UNION {{<<name, i>> : i \in {j \in 1..Len(ws[name].rows) :
                                    ws[name].rows[j][3] # None}} :
           name \in DOMAIN ws}

\* C35: whatever the interleaving of stopTimer calls on a document, an open
\* row is closed by one successful stopTimer at most: the successful stops
\* that have returned are no more than the rows that have an End, and the
\* updateCell of a stopTimer never lands on an End that already has a value.
C35_StopsAtomic ==
    [][/\ \A d \in Docs :
             Cardinality({p \in Procs :
                             /\ proc'[p].pc = "done" /\ proc'[p].op = "stop"
                             /\ proc'[p].doc = d
                             /\ proc'[p].result.status = "ok"})
                <= Cardinality(ClosedRows(store'[d]))
       /\ \A p \in Procs :
             /\ proc[p].pc = "stopTimer_updateCell"
             /\ proc'[p].pc = "done"
             /\ proc'[p].result.status = "ok"
             => store[proc[p].doc][proc[p].currentSheet]
                    .rows[proc[p].activeTimer[2] - 5][3] = None
      ]_vars

\* the values of A6:C of the segment getCurrentSheet gave to call pr, as
\* they were when the call began
SegmentData(pr) == getWorksheetData(pr.pre.ws, pr.resolved.name, "A6:C")

\* C36: on the rows of the segment that getCurrentSheet resolved,
\* startTimer fails with TimerAlreadyRunning exactly when
\* findActiveTimerRow finds a row there and succeeds otherwise, and
\* stopTimer succeeds exactly when isTimerRunning is true there and fails
\* with NoActiveTimer otherwise: the two tests agree, and of a start and a
\* stop on the same contents exactly one succeeds.
C36_TestsAgree ==
    \A p \in Done("start") \cup Done("stop") :
        LET pr == proc[p]
        IN  pr.resolved.set /\ pr.resolved.name # None =>
              LET data   == SegmentData(pr)
                  active == findActiveTimerRow(data) # None
              IN  /\ isTimerRunning(data) <=> active
                  /\ pr.op = "start" =>
                        /\ pr.result.status = "TimerAlreadyRunning" <=> active
                        /\ pr.result.status = "ok" <=> ~active
                  /\ pr.op = "stop" =>
                        /\ pr.result.status = "ok" <=> isTimerRunning(data)
                        /\ pr.result.status = "NoActiveTimer"
                              <=> ~isTimerRunning(data)

C36_Witness ==
    \E p \in Done("start") :
        LET pr == proc[p]
        IN  /\ pr.resolved.name # None
            /\ pr.result.status = "ok"
            /\ \E i \in 1..Len(SegmentData(pr)) :
                  /\ i < Len(SegmentData(pr))
                  /\ Len(SegmentData(pr)[i]) = 2

\* C37: a step that adds a data row to a period segment is taken only on
\* a segment to which a layout batch has been applied: a segment that was
\* created but whose layout batch failed or has not been issued yet never
\* receives startTimer's row.
C37_LayoutBeforeAppend ==
    [][\A d \in Docs :
          \A name \in DOMAIN store[d] \cap DOMAIN store'[d] :
              /\ DatePattern(name)
              /\ Len(store'[d][name].rows) > Len(store[d][name].rows)
              => store[d][name].laid = LayoutWrites
      ]_vars

\* the positions of a call inside getCurrentSheet, isTimerRunning and
\* findActiveTimerRow
Deriving ==
    {"getCurrentSheet_getWorksheets", "getCurrentSheet_getWorksheetData",
     "isTimerRunning_getWorksheetData", "findActiveTimerRow_getWorksheetData"}

\* C38: a step of getCurrentSheet, isTimerRunning or findActiveTimerRow
\* issues one store call, a getWorksheets or a getWorksheetData, and leaves
\* every worksheet of every document and the config cache as they are.
C38_DerivationIsPure ==
    [][\A p \in Procs :
          proc[p].pc \in Deriving /\ proc'[p] # proc[p]
          => /\ store' = store
             /\ configCache' = configCache
             /\ Len(proc'[p].trace) = Len(proc[p].trace) + 1
             /\ proc'[p].trace[Len(proc'[p].trace)].call
                   \in {"getWorksheets", "getWorksheetData"}
      ]_vars

C38_Witness ==
    \E p \in Procs :
        /\ proc[p].pc = "stopTimer_updateCell"
        /\ proc[p].resolved.name # None
        /\ Len(store[proc[p].doc][proc[p].resolved.name].rows) = 2
        /\ store[proc[p].doc] = proc[p].pre.ws
        /\ configCache[proc[p].doc] = proc[p].pre.cache
        /\ \A i \in 1..Len(proc[p].trace) :
              proc[p].trace[i].call \in {"getWorksheets", "getWorksheetData"}

\* the period segments of a document that hold the seed formulas
Seeded(ws) == {name \in DOMAIN ws : DatePattern(name) /\ ws[name].seed # <<>>}

\* a Config worksheet that createConfigSheet filled and that still holds an
\* Hourly Rate row
EngineConfig(ws) ==
    /\ ConfigName \in DOMAIN ws
    /\ \E i \in 1..Len(ws[ConfigName].laid) : ws[ConfigName].laid[i] = "values"
    /\ \E i \in 1..Len(ws[ConfigName].kv) :
          /\ Len(ws[ConfigName].kv[i]) >= 2
          /\ ws[ConfigName].kv[i][1] = "Hourly Rate"

\* the Hourly Rate value of the Config worksheet
HourlyRate(ws) ==
    LET grid == ws[ConfigName].kv
    IN  grid[CHOOSE i \in 1..Len(grid) :
                Len(grid[i]) >= 2 /\ grid[i][1] = "Hourly Rate"][2]

====
